---------------------------- MODULE Spec2Model ----------------------------
(***************************************************************************)
(* fsmentry: a generator of state machines with an entry API.              *)
(*                                                                         *)
(* Two parts of the repository are modelled.                               *)
(*   - The graph builder FSMGenerator::try_from_dsl (core/src/lib.rs),     *)
(*     a pure function of the statement list (specification SpecBuild).    *)
(*   - The code the generator emits: the container, its entry() method,    *)
(*     the connector structs, their accessors and transition methods, as   *)
(*     emitted by FSMGenerator::codegen and recorded in the expected       *)
(*     outputs core/tests/check_compile/{simple,full}.rs (specification    *)
(*     Spec).                                                              *)
(***************************************************************************)
EXTENDS Naturals, Sequences, FiniteSets, TLC

VARIABLES
    stmts,      \* the statement list handed to try_from_dsl (Dsl::stmts)
    result,     \* what try_from_dsl returned: Pending, Ok(generator) or Err(msg)
    gname,      \* which generated machine is running
    machine,    \* per generated flavour: the container and what the last call did
    handles,    \* the live borrows of the container (connector structs, data refs)
    last,       \* the last call made on the generated API
    initial,    \* the value the container was created with
    tainted,    \* the container was touched outside the entry API
    halted,     \* a mismatch arm was reached: the run is over
    kinds,      \* what Graph::nodes() yielded for the built graph
    previous,   \* the output of the codegen run before the last one
    generated,  \* the output of the last codegen run
    tokens,     \* the token stream handed to Root::parse (the enum's body)
    root,       \* what Root::parse returned: Idle, or its statements, or an error
    graph,      \* the Graph built from the statements
    emitted,    \* the items emitted for the graph
    digraph,    \* the DOT graph handed to parse_dot
    fromDot,    \* what parse_dot returned: Pending, Ok(generator) or Err(msg)
    cli,        \* the command-line tool: its arguments, its progress, its output
    walk,       \* the walk of trybuild/pass: the states visited, whether it ended
    args        \* the keyed-argument parser: its handlers, the calls made on it

vars == <<stmts, result, gname, machine, handles, last, initial, tainted, halted,
          kinds, previous, generated, tokens, root, graph, emitted,
          digraph, fromDot, cli, walk, args>>

genVars == <<kinds, previous, generated>>
parseVars == <<tokens, root, graph, emitted>>
toolVars == <<digraph, fromDot, cli, walk, args>>
buildVars == <<stmts, result, genVars, parseVars, toolVars>>
runVars == <<gname, machine, handles, last, initial, tainted, halted>>

(***************************************************************************)
(* Option<T>: None is the empty sequence, Some(x) the one-element one.     *)
(***************************************************************************)
None == <<>>
Some(x) == <<x>>
IsSome(o) == o # <<>>

(***************************************************************************)
(* Bounds and sample sets of the builder's input.                          *)
(***************************************************************************)
MaxStmts == 3

DupNodeMsg == "duplicate node definition"
DupEdgeMsg == "duplicate edge definition"

\* dsl::Edge: the three spellings of an arrow.
Short == [kind |-> "Short"]
Long == [kind |-> "Long"]
Documented(doc) == [kind |-> "Documented", doc |-> doc]

\* dsl::Stmt::Node(StmtNode { attrs, ident, ty, .. })
StmtNode(attrs, ident, ty) ==
    [kind |-> "Node", attrs |-> attrs, ident |-> ident, ty |-> ty]

\* dsl::Stmt::Edges(StmtEdges { attrs, from, edge, to, rest, .. });
\* rest is a sequence of <<edge, ident>> pairs.
StmtEdges(attrs, from, edge, to, rest) ==
    [kind |-> "Edges", attrs |-> attrs, from |-> from, edge |-> edge,
     to |-> to, rest |-> rest]

NodeData(ty, docs) == [ty |-> ty, docs |-> docs]

Pending == [tag |-> "Pending"]
Ok(nodes, edges) == [tag |-> "Ok", nodes |-> nodes, edges |-> edges]
Err(msg) == [tag |-> "Err", msg |-> msg]

SampleNodeStmts ==
    { StmtNode(<<>>, "A", None),
      StmtNode(<<>>, "A", Some("String")),
      StmtNode(<<>>, "A", Some("VecU8")),
      StmtNode(<<"about A">>, "A", Some("String")),
      StmtNode(<<"more on A">>, "A", None),
      StmtNode(<<>>, "B", None),
      StmtNode(<<>>, "B", Some("String")) }

SampleEdgeStmts ==
    { StmtEdges(<<>>, "A", Short, "B", <<>>),
      StmtEdges(<<>>, "A", Long, "B", <<>>),
      StmtEdges(<<>>, "A", Documented("note"), "B", <<>>),
      StmtEdges(<<>>, "B", Short, "A", <<>>),
      StmtEdges(<<>>, "A", Short, "B", << <<Short, "A">> >>),
      StmtEdges(<<>>, "A", Short, "B", << <<Short, "C">> >>),
      StmtEdges(<<>>, "A", Short, "A", << <<Long, "A">> >>),
      StmtEdges(<<"shared">>, "B", Documented("note"), "A", << <<Short, "B">> >>) }

SampleStmts == SampleNodeStmts \cup SampleEdgeStmts

RECURSIVE SeqsUpTo(_, _)
SeqsUpTo(S, n) ==
    IF n = 0 THEN {<<>>}
    ELSE LET shorter == SeqsUpTo(S, n - 1)
         IN shorter \cup {Append(s, x) : s \in shorter, x \in S}

Inputs == SeqsUpTo(SampleStmts, MaxStmts)

(***************************************************************************)
(* FSMGenerator::try_from_dsl                                              *)
(***************************************************************************)
RECURSIVE Perms(_)
Perms(S) ==
    IF S = {} THEN {<<>>}
    ELSE UNION {{<<x>> \o p : p \in Perms(S \ {x})} : x \in S}

\* stmts.sort_unstable_by(..): Node statements before Edges statements; the
\* sort is unstable, so the order among the statements of one kind is any.
SortSkipped(ss) == {ss}

SortUnstableBy(ss) ==
    LET nodeIx == {i \in DOMAIN ss : ss[i].kind = "Node"}
        edgeIx == {i \in DOMAIN ss : ss[i].kind = "Edges"}
    IN {[k \in 1..Len(ss) |-> ss[(p \o q)[k]]] :
            p \in Perms(nodeIx), q \in Perms(edgeIx)}

\* match nodes.entry(ident) { Occupied => bail, Vacant(v) => v.insert(..) }
NodeEntry(nodes, ident, data) ==
    IF ident \in DOMAIN nodes
    THEN Err(DupNodeMsg)
    ELSE Ok(nodes @@ (ident :> data), <<>>)

\* nodes.entry(ident).or_insert(NodeData { ty: None, docs: vec![] })
OrInsertClobbers(nodes, ident) ==
    [k \in (DOMAIN nodes) \cup {ident} |->
        IF k = ident THEN NodeData(None, <<>>) ELSE nodes[k]]

\* or_insert with a payload type in place of `ty: None`.
OrInsertTyped(nodes, ident) ==
    IF ident \in DOMAIN nodes THEN nodes
    ELSE nodes @@ (ident :> NodeData(Some("String"), <<>>))

OrInsert(nodes, ident) ==
    IF ident \in DOMAIN nodes THEN nodes
    ELSE nodes @@ (ident :> NodeData(None, <<>>))

InsertChainHeadOnly(nodes, idents) ==
    IF idents = <<>> THEN nodes ELSE OrInsert(nodes, Head(idents))

RECURSIVE InsertChainNodes(_, _)
InsertChainNodes(nodes, idents) ==
    IF idents = <<>> THEN nodes
    ELSE InsertChainNodes(OrInsert(nodes, Head(idents)), Tail(idents))

\* The documentation stored with an edge: the statement's attrs, then for a
\* documented arrow an empty line (if there were attrs) and the arrow's text.
EdgeDocs(attrs, edge) ==
    IF edge.kind = "Documented"
    THEN (IF attrs # <<>> THEN Append(attrs, "") ELSE attrs) \o <<edge.doc>>
    ELSE attrs

\* match edges.entry((from, to)) { Occupied => bail, Vacant(v) => v.insert(..) }
EdgeEntryClobber(edges, key, docs) ==
    Ok(<<>>, [k \in (DOMAIN edges) \cup {key} |->
                 IF k = key THEN docs ELSE edges[k]])

EdgeEntry(edges, key, docs) ==
    IF key \in DOMAIN edges
    THEN Err(DupEdgeMsg)
    ELSE Ok(<<>>, edges @@ (key :> docs))

\* The loop over the hops without its last line `from = to`.
RECURSIVE InsertEdgesFromHead(_, _, _, _)
InsertEdgesFromHead(edges, attrs, from, hops) ==
    IF hops = <<>> THEN Ok(<<>>, edges)
    ELSE LET edge == hops[1][1]
             to == hops[1][2]
             r == EdgeEntry(edges, <<from, to>>, EdgeDocs(attrs, edge))
         IN IF r.tag = "Err" THEN r
            ELSE InsertEdgesFromHead(r.edges, attrs, from, Tail(hops))

RECURSIVE InsertEdges(_, _, _, _)
InsertEdges(edges, attrs, from, hops) ==
    IF hops = <<>> THEN Ok(<<>>, edges)
    ELSE LET edge == hops[1][1]
             to == hops[1][2]
             r == EdgeEntry(edges, <<from, to>>, EdgeDocs(attrs, edge))
         IN IF r.tag = "Err" THEN r
            ELSE InsertEdges(r.edges, attrs, to, Tail(hops))

ChainIdents(s) == <<s.from, s.to>> \o [i \in DOMAIN s.rest |-> s.rest[i][2]]
ChainHops(s) == << <<s.edge, s.to>> >> \o s.rest

\* One turn of the loop `for stmt in stmts`.
ProcessStmt(nodes, edges, s) ==
    IF s.kind = "Node"
    THEN LET r == NodeEntry(nodes, s.ident, NodeData(s.ty, s.attrs))
         IN IF r.tag = "Err" THEN r ELSE Ok(r.nodes, edges)
    ELSE LET ns == InsertChainNodes(nodes, ChainIdents(s))
             r == InsertEdges(edges, s.attrs, s.from, ChainHops(s))
         IN IF r.tag = "Err" THEN r ELSE Ok(ns, r.edges)

\* The loop with a `continue` in place of the `return Err(..)` of bail_at!.
RECURSIVE FoldStmtsSkipsFailed(_, _, _)
FoldStmtsSkipsFailed(nodes, edges, ss) ==
    IF ss = <<>> THEN Ok(nodes, edges)
    ELSE LET r == ProcessStmt(nodes, edges, Head(ss))
         IN IF r.tag = "Err" THEN FoldStmtsSkipsFailed(nodes, edges, Tail(ss))
            ELSE FoldStmtsSkipsFailed(r.nodes, r.edges, Tail(ss))

RECURSIVE FoldStmts(_, _, _)
FoldStmts(nodes, edges, ss) ==
    IF ss = <<>> THEN Ok(nodes, edges)
    ELSE LET r == ProcessStmt(nodes, edges, Head(ss))
         IN IF r.tag = "Err" THEN r
            ELSE FoldStmts(r.nodes, r.edges, Tail(ss))

\* The results try_from_dsl can return for a statement list.
TryFromDsl(ss) == {FoldStmts(<<>>, <<>>, sorted) : sorted \in SortUnstableBy(ss)}

(***************************************************************************)
(* The builder as a state machine: an input, then one call.                *)
(***************************************************************************)
Idle == [tag |-> "Idle"]

\* Nothing was generated, nothing was handed to Root::parse.
NoGen == kinds = Idle /\ previous = Idle /\ generated = Idle
NoParse == tokens = <<>> /\ root = Idle /\ graph = Idle /\ emitted = Idle
NoDot == digraph = Idle /\ fromDot = Idle
NoArgs == args = Idle
NoTools == NoDot /\ cli = Idle /\ walk = Idle /\ NoArgs

InitBuild ==
    /\ stmts \in Inputs
    /\ result = Pending
    /\ NoGen
    /\ NoParse
    /\ NoTools
    /\ gname = "none"
    /\ machine = Idle
    /\ handles = {}
    /\ last = Idle
    /\ initial = Idle
    /\ tainted = FALSE
    /\ halted = FALSE

ParseDsl ==
    /\ result = Pending
    /\ result' \in TryFromDsl(stmts)
    /\ UNCHANGED <<stmts, runVars, genVars, parseVars, toolVars>>

NextBuild == ParseDsl

SpecBuild == InitBuild /\ [][NextBuild]_vars

(***************************************************************************)
(* The generated machines.                                                 *)
(*                                                                         *)
(* Road and State are the machines of core/tests/test.rs, whose generated  *)
(* code is core/tests/check_compile/{simple,full}.rs; their graphs are     *)
(* read off that code: a node per variant of the state enum, an edge per   *)
(* transition method.  Example and TrafficLight are the machines of        *)
(* trybuild/pass, built by try_from_dsl and emitted by codegen.            *)
(***************************************************************************)
RoadGraph ==
    Ok([n \in {"End", "Fork", "Start"} |-> NodeData(None, <<>>)],
       [e \in {<<"Start", "Fork">>, <<"Fork", "End">>, <<"Fork", "Start">>}
           |-> <<>>])

StateGraph ==
    Ok(  ("BeautifulBridge" :> NodeData(Some("VecU8"), <<>>))
      @@ ("DesertIsland" :> NodeData(None, <<>>))
      @@ ("Fountain" :> NodeData(Some("RefMutT"), <<>>))
      @@ ("Plank" :> NodeData(None, <<>>))
      @@ ("PopulatedIsland" :> NodeData(Some("String"), <<>>))
      @@ ("Stream" :> NodeData(None, <<>>))
      @@ ("Tombstone" :> NodeData(Some("char"), <<>>))
      @@ ("UnmarkedGrave" :> NodeData(None, <<>>)),
       [e \in {<<"BeautifulBridge", "Tombstone">>,
               <<"Fountain", "BeautifulBridge">>,
               <<"Fountain", "Plank">>,
               <<"Plank", "UnmarkedGrave">>,
               <<"Stream", "BeautifulBridge">>,
               <<"Stream", "Plank">>} |-> <<>>])

ExampleDsl ==
    << StmtNode(<<"An isolated vertex with associated data">>, "PopulatedIsland", Some("String")),
       StmtNode(<<"An isolated vertex with no data">>, "DesertIsland", None),
       StmtNode(<<"A vertex with nonzero indegree and outdegree, with associated data">>, "BeautifulBridge", Some("VecU8")),
       StmtNode(<<"A vertex with nonzero indegree and outdegree, with no data">>, "Plank", None),
       StmtNode(<<"A sink with data">>, "Tombstone", Some("char")),
       StmtNode(<<"A sink with no data">>, "UnmarkedGrave", None),
       StmtNode(<<"A source with data">>, "Fountain", Some("IpAddr")),
       StmtNode(<<"A source with no data">>, "Stream", None),
       StmtEdges(<<"An edge">>, "BeautifulBridge", Short, "UnmarkedGrave", <<>>),
       StmtEdges(<<>>, "Plank", Documented("inline documentation"),
                 "Tombstone", <<>>),
       StmtEdges(<<"This documentation is shared among all transitions">>,
                 "Fountain", Short, "BeautifulBridge",
                 << <<Short, "Tombstone">> >>),
       StmtEdges(<<"This is also shared among all transitions">>,
                 "Fountain", Documented("with inline too"),
                 "Plank", << <<Short, "UnmarkedGrave">> >>),
       StmtEdges(<<>>, "Stream", Long, "BeautifulBridge", <<>>),
       StmtEdges(<<>>, "Stream", Documented("different arrow lengths are ok"),
                 "Plank", <<>>) >>

TrafficLightDsl ==
    << StmtEdges(<<>>, "Red", Short, "RedAmber",
                 << <<Short, "Green">>, <<Short, "Amber">>, <<Short, "Red">> >>) >>

IsNodeStmt(s) == s.kind = "Node"
IsEdgesStmt(s) == s.kind = "Edges"

\* The generator of a statement list without repeated names or pairs: every
\* order the sort can produce gives the same maps; this is the one that
\* keeps the statements of one kind in their written order.
Generator(ss) ==
    FoldStmts(<<>>, <<>>, SelectSeq(ss, IsNodeStmt) \o SelectSeq(ss, IsEdgesStmt))

Machines == {"Road", "State", "Example", "TrafficLight"}

ExampleGraph == Generator(ExampleDsl)
TrafficLightGraph == Generator(TrafficLightDsl)

GraphOf(g) ==
    CASE g = "Road" -> RoadGraph
      [] g = "State" -> StateGraph
      [] g = "Example" -> ExampleGraph
      [] g = "TrafficLight" -> TrafficLightGraph

\* The flavours of generated code a machine exists in: for the machines of
\* core/tests the code with the panic arm ("checked") and with the
\* unreachable_unchecked arm ("unsafe"), run side by side; for the machines
\* of trybuild/pass the code FSMGenerator::codegen emits ("legacy").
Flavours(g) ==
    IF g \in {"Road", "State"} THEN {"checked", "unsafe"} ELSE {"legacy"}

\* The connector structs of the core/tests machines are tuple structs in the
\* module the enum is written in, so code of that module can build one
\* around any container; those of codegen have a field private to the
\* generated module.
DirectlyConstructible(g) == g \in {"Road", "State"}

\* The values a payload can take.
Data == {"d0", "d1"}

(***************************************************************************)
(* FSMGenerator::incoming / outgoing: None when there is no such edge.     *)
(***************************************************************************)
incoming(G, to) ==
    LET vec == {e[1] : e \in {e \in DOMAIN G.edges : e[2] = to}}
    IN IF vec = {} THEN None ELSE Some(vec)

outgoing(G, from) ==
    LET vec == {e[2] : e \in {e \in DOMAIN G.edges : e[1] = from}}
    IN IF vec = {} THEN None ELSE Some(vec)

HasData(G, n) == IsSome(G.nodes[n].ty)

\* A value of the state enum: the variant and, for a variant with a field,
\* the payload.
StateValue(G, n, payload) ==
    [variant |-> n, data |-> IF HasData(G, n) THEN payload ELSE None]

Payloads(G, n) == IF HasData(G, n) THEN {Some(d) : d \in Data} ELSE {None}

StateValues(G) ==
    UNION {{StateValue(G, n, p) : p \in Payloads(G, n)} : n \in DOMAIN G.nodes}

(***************************************************************************)
(* The generated code.                                                     *)
(*                                                                         *)
(* A call's effect on one machine is a record: the container after the     *)
(* call, the value returned (an Option of a payload) and the outcome:      *)
(* "ok", "panic" (panic!, unreachable!, a failed debug_assert!) or "ub"    *)
(* (unreachable_unchecked was executed: the container and the returned     *)
(* value are then anything).  An operator gives the set of effects the     *)
(* build can produce.                                                      *)
(***************************************************************************)
Effect(state, ret, outcome) == [state |-> state, ret |-> ret, outcome |-> outcome]

Undefined(G) ==
    {Effect(s, r, "ub") : s \in StateValues(G), r \in {None} \cup {Some(d) : d \in Data}}

\* A handle: a connector struct (Fork<'state>(&'state mut Road)) or the
\* reference to the payload the entry enum holds for a sink with data.
\* origin: made by entry(), or built directly around the container.
\* id: which of the live borrows it is; uses: the transitions it has
\* performed.
Handle(kind, node, origin, id) ==
    [kind |-> kind, node |-> node, origin |-> origin, id |-> id, uses |-> 0]

\* entry(): From<&mut State> for the entry enum.  The set of handles the
\* returned entry value holds.
\* entry() that wraps every variant in a connector.
EntryHandlesAllConnectors(G, state, id) ==
    {Handle("connector", state.variant, "entry", id)}

EntryHandles(G, state, id) ==
    IF IsSome(outgoing(G, state.variant))
    THEN {Handle("connector", state.variant, "entry", id)}
    ELSE IF HasData(G, state.variant)
         THEN {Handle("dataref", state.variant, "entry", id)}
         ELSE {}

\* `&'state mut self`: a borrow of the container can start only when no
\* other borrow of it is live.
CanBorrowAlways(hs) == TRUE

CanBorrow(hs) == hs = {}

\* AsRef::as_ref / get, in the three flavours.
\* A read accessor that moves the payload out.
AsRefTakes(G, state, node) ==
    {Effect([state EXCEPT !.data = None], state.data, "ok")}

AsRefChecked(G, state, node) ==
    IF state.variant = node
    THEN {Effect(state, state.data, "ok")}
    ELSE {Effect(state, None, "panic")}

AsRefUnsafe(G, state, node) ==
    IF state.variant = node
    THEN {Effect(state, state.data, "ok")}
    ELSE Undefined(G)

AsRefLegacy(G, state, node) ==
    IF state.variant = node
    THEN {Effect(state, state.data, "ok")}
    ELSE {Effect(state, None, "panic")}

\* AsMut::as_mut / get_mut followed by a write of v through the reference.
\* A read-write accessor that hands out a reference to a copy.
AsMutOnCopy(G, state, node, v) ==
    {Effect(state, None, "ok")}

AsMutChecked(G, state, node, v) ==
    IF state.variant = node
    THEN {Effect([state EXCEPT !.data = Some(v)], None, "ok")}
    ELSE {Effect(state, None, "panic")}

AsMutUnsafe(G, state, node, v) ==
    IF state.variant = node
    THEN {Effect([state EXCEPT !.data = Some(v)], None, "ok")}
    ELSE Undefined(G)

AsMutLegacy(G, state, node, v) ==
    IF state.variant = node
    THEN {Effect([state EXCEPT !.data = Some(v)], None, "ok")}
    ELSE {Effect(state, None, "panic")}

\* A transition method of the connector for `node`, to `to`, with the
\* argument `next` (None when the method has no parameter):
\*     match mem::replace(self.0, State::To(next)) {
\*         State::Node(it) => it,  _ => <mismatch arm> }
\* The replacement is made before the old value is looked at.
TransitionCheckFirst(G, state, node, to, next) ==
    IF state.variant = node
    THEN {Effect(StateValue(G, to, next), state.data, "ok")}
    ELSE {Effect(state, None, "panic")}

TransitionReturnsNext(G, state, node, to, next) ==
    IF state.variant = node
    THEN {Effect(StateValue(G, to, next), next, "ok")}
    ELSE Undefined(G)

TransitionDropsPayload(G, state, node, to, next) ==
    IF state.variant = node
    THEN {Effect(StateValue(G, to, next), None, "ok")}
    ELSE {Effect(StateValue(G, to, next), None, "panic")}

TransitionChecked(G, state, node, to, next) ==
    LET prev == state
        replaced == StateValue(G, to, next)
    IN IF prev.variant = node
       THEN {Effect(replaced, prev.data, "ok")}
       ELSE {Effect(replaced, None, "panic")}

TransitionUnsafe(G, state, node, to, next) ==
    LET prev == state
        replaced == StateValue(G, to, next)
    IN IF prev.variant = node
       THEN {Effect(replaced, prev.data, "ok")}
       ELSE Undefined(G)

\* A transition method without its mem::replace.
TransitionLegacyKeeps(G, state, node, to, next) ==
    {Effect(state, state.data, "ok")}

\* codegen: a source without data checks with debug_assert!, which a
\* release build leaves out; a source with data with unreachable!.
TransitionLegacy(G, state, node, to, next) ==
    LET prev == state
        replaced == StateValue(G, to, next)
    IN IF prev.variant = node
       THEN {Effect(replaced, prev.data, "ok")}
       ELSE IF HasData(G, node)
            THEN {Effect(replaced, None, "panic")}
            ELSE {Effect(replaced, None, "panic"), Effect(replaced, None, "ok")}

\* `self` by value: the call moves the handle, which is then gone.
ConsumeKeeps(hs, h) == (hs \ {h}) \cup {[h EXCEPT !.uses = @ + 1]}

Consume(hs, h) == hs \ {h}

\* The transition methods codegen emits for a connector: one per outgoing
\* edge; the parameter `next` exists when the target has a payload.
AnyNodeMethods(G, node) == DOMAIN G.nodes

TransitionMethods(G, node) ==
    IF IsSome(outgoing(G, node)) THEN outgoing(G, node)[1] ELSE {}

(***************************************************************************)
(* A run of a generated machine: calls of the generated API by the code    *)
(* that owns the container.  The flavours of one machine take every call   *)
(* side by side.  A call that reaches a mismatch arm ends the run.         *)
(***************************************************************************)
G == GraphOf(gname)

Call(op, node, to, next, origin, pre) ==
    [op |-> op, node |-> node, to |-> to, next |-> next, origin |-> origin,
     pre |-> pre]

\* The container: the flavours hold the same value as long as the run goes.
Container == machine[CHOOSE m \in DOMAIN machine : TRUE].state

Lockstep(ec, eu, el) ==
    [m \in DOMAIN machine |->
        IF m = "checked" THEN ec ELSE IF m = "unsafe" THEN eu ELSE el]

Quiet == [m \in DOMAIN machine |-> Effect(machine[m].state, None, "ok")]

Mismatch(f) == \E m \in DOMAIN f : f[m].outcome # "ok"

Init ==
    /\ stmts = <<>>
    /\ result = Pending
    /\ NoGen
    /\ NoParse
    /\ NoTools
    /\ gname \in Machines
    /\ initial \in StateValues(GraphOf(gname))
    /\ machine = [m \in Flavours(gname) |-> Effect(initial, None, "ok")]
    /\ handles = {}
    /\ last = Call("new", initial.variant, "-", None, "-", initial)
    /\ tainted = FALSE
    /\ halted = FALSE

Entry ==
    /\ ~halted
    /\ CanBorrow(handles)
    /\ handles' = handles \cup EntryHandles(G, Container, Cardinality(handles))
    /\ machine' = Quiet
    /\ last' = Call("entry", Container.variant, "-", None, "entry", Container)
    /\ UNCHANGED <<buildVars, gname, initial, tainted, halted>>

AsRefIn(m, h) ==
    IF m \notin DOMAIN machine THEN {Idle}
    ELSE CASE m = "checked" -> AsRefChecked(G, machine[m].state, h.node)
           [] m = "unsafe" -> AsRefUnsafe(G, machine[m].state, h.node)
           [] m = "legacy" -> AsRefLegacy(G, machine[m].state, h.node)

AsRef(h) ==
    /\ ~halted
    /\ h.kind = "connector"
    /\ HasData(G, h.node)
    /\ \E ec \in AsRefIn("checked", h), eu \in AsRefIn("unsafe", h),
          el \in AsRefIn("legacy", h) :
            machine' = Lockstep(ec, eu, el)
    /\ last' = Call("as_ref", h.node, "-", None, h.origin, Container)
    /\ halted' = Mismatch(machine')
    /\ UNCHANGED <<buildVars, gname, handles, initial, tainted>>

AsMutIn(m, h, v) ==
    IF m \notin DOMAIN machine THEN {Idle}
    ELSE CASE m = "checked" -> AsMutChecked(G, machine[m].state, h.node, v)
           [] m = "unsafe" -> AsMutUnsafe(G, machine[m].state, h.node, v)
           [] m = "legacy" -> AsMutLegacy(G, machine[m].state, h.node, v)

AsMut(h, v) ==
    /\ ~halted
    /\ h.kind = "connector"
    /\ HasData(G, h.node)
    /\ \E ec \in AsMutIn("checked", h, v), eu \in AsMutIn("unsafe", h, v),
          el \in AsMutIn("legacy", h, v) :
            machine' = Lockstep(ec, eu, el)
    /\ last' = Call("as_mut", h.node, "-", Some(v), h.origin, Container)
    /\ halted' = Mismatch(machine')
    /\ UNCHANGED <<buildVars, gname, handles, initial, tainted>>

\* A write through the payload reference entry() gave for a sink with data.
WriteData(h, v) ==
    /\ ~halted
    /\ h.kind = "dataref"
    /\ machine' = [m \in DOMAIN machine |->
                      Effect([machine[m].state EXCEPT !.data = Some(v)], None, "ok")]
    /\ last' = Call("write", h.node, "-", Some(v), h.origin, Container)
    /\ UNCHANGED <<buildVars, gname, handles, initial, tainted, halted>>

TransitionIn(m, h, to, next) ==
    IF m \notin DOMAIN machine THEN {Idle}
    ELSE CASE m = "checked" -> TransitionChecked(G, machine[m].state, h.node, to, next)
           [] m = "unsafe" -> TransitionUnsafe(G, machine[m].state, h.node, to, next)
           [] m = "legacy" -> TransitionLegacy(G, machine[m].state, h.node, to, next)

Transition(h, to, next) ==
    /\ ~halted
    /\ h.kind = "connector"
    /\ to \in TransitionMethods(G, h.node)
    /\ next \in Payloads(G, to)
    /\ \E ec \in TransitionIn("checked", h, to, next),
          eu \in TransitionIn("unsafe", h, to, next),
          el \in TransitionIn("legacy", h, to, next) :
            machine' = Lockstep(ec, eu, el)
    /\ handles' = Consume(handles, h)
    /\ last' = Call("transition", h.node, to, next, h.origin, Container)
    /\ halted' = Mismatch(machine')
    /\ UNCHANGED <<buildVars, gname, initial, tainted>>

\* The entry value, with the borrow it holds, goes out of scope.
DropHandle(h) ==
    /\ ~halted
    /\ handles' = handles \ {h}
    /\ machine' = Quiet
    /\ last' = Call("drop", h.node, "-", None, h.origin, Container)
    /\ UNCHANGED <<buildVars, gname, initial, tainted, halted>>

\* Fork(&mut road): a connector built in the module of the enum, around a
\* container in any state.
Construct(n) ==
    /\ ~halted
    /\ DirectlyConstructible(gname)
    /\ CanBorrow(handles)
    /\ IsSome(outgoing(G, n))
    /\ handles' = handles \cup {Handle("connector", n, "direct", Cardinality(handles))}
    /\ machine' = Quiet
    /\ last' = Call("construct", n, "-", None, "direct", Container)
    /\ tainted' = TRUE
    /\ UNCHANGED <<buildVars, gname, initial, halted>>

\* *machine.state_mut() = s, or an assignment to the enum itself.
StateMut(s) ==
    /\ ~halted
    /\ CanBorrow(handles)
    /\ machine' = [m \in DOMAIN machine |-> Effect(s, None, "ok")]
    /\ last' = Call("state_mut", s.variant, "-", s.data, "-", Container)
    /\ tainted' = TRUE
    /\ UNCHANGED <<buildVars, gname, handles, initial, halted>>

Next ==
    \/ Entry
    \/ \E h \in handles : AsRef(h)
    \/ \E h \in handles, v \in Data : AsMut(h, v)
    \/ \E h \in handles, v \in Data : WriteData(h, v)
    \/ \E h \in handles, to \in DOMAIN G.nodes,
          next \in {None} \cup {Some(d) : d \in Data} : Transition(h, to, next)
    \/ \E h \in handles : DropHandle(h)
    \/ \E n \in DOMAIN G.nodes : Construct(n)
    \/ \E s \in StateValues(G) : StateMut(s)

Spec == Init /\ [][Next]_vars

RECURSIVE ReachFrom(_, _)
ReachFrom(GG, S) ==
    LET T == S \cup {e[2] : e \in {e \in DOMAIN GG.edges : e[1] \in S}}
    IN IF T = S THEN S ELSE ReachFrom(GG, T)

(***************************************************************************)
(* C1.  As long as the container is changed only through entry() and the   *)
(* transition methods of the handles entry() returns, every change of the  *)
(* current variant goes along an edge of the graph, and so the current     *)
(* variant is reachable from the initial one along edges.                  *)
(***************************************************************************)
VariantChangesAlongEdges ==
    /\ [][\A m \in DOMAIN machine :
            (/\ ~tainted'
             /\ machine'[m].state.variant # machine[m].state.variant)
            => <<machine[m].state.variant, machine'[m].state.variant>>
                  \in DOMAIN G.edges]_vars
    /\ [](~tainted =>
            \A m \in DOMAIN machine :
                machine[m].state.variant \in ReachFrom(G, {initial.variant}))

VariantChangesAlongEdgesWitness ==
    /\ ~tainted
    /\ last.op = "transition"
    /\ last.origin = "entry"
    /\ Container.variant = last.to
    /\ Container.variant # initial.variant

(***************************************************************************)
(* C2.  While a connector that entry() returned for node N is live, the    *)
(* container holds variant N; a mismatch arm of an accessor or of a        *)
(* transition method is reached only through a handle that was not made    *)
(* by entry().                                                             *)
(***************************************************************************)
EntryHandleMatchesContainer ==
    /\ \A h \in handles :
          (h.kind = "connector" /\ h.origin = "entry") =>
              \A m \in DOMAIN machine : machine[m].state.variant = h.node
    /\ Mismatch(machine) => last.origin = "direct"

EntryHandleMatchesContainerWitness ==
    /\ last.op = "as_mut"
    /\ \E h \in handles :
          /\ h.kind = "connector"
          /\ h.origin = "entry"
          /\ h.node = Container.variant
          /\ Container.data = last.next

(***************************************************************************)
(* C3.  A handle performs at most one transition.  At most one borrow of   *)
(* the container is live, and while it is, the only calls are calls on     *)
(* that handle: no entry(), no other access to the container.              *)
(***************************************************************************)
OneTransitionPerHandle ==
    /\ [](/\ Cardinality(handles) <= 1
          /\ \A h \in handles : h.uses = 0)
    /\ [][handles # {} =>
            /\ last'.op \in {"as_ref", "as_mut", "write", "transition", "drop"}
            /\ handles' \subseteq handles]_vars

OneTransitionPerHandleWitness ==
    /\ last.op = "transition"
    /\ last.origin = "entry"
    /\ handles = {}
    /\ ~halted

(***************************************************************************)
(* C4.  The transition method for the edge (A, B), called while the        *)
(* container holds A, leaves the container holding B, bare when B has no   *)
(* payload and with the argument as payload otherwise, and returns the     *)
(* payload A held before the call, or nothing when A has none.  The        *)
(* method has a payload parameter exactly when B has a payload.            *)
(***************************************************************************)
TransitionInstallsAndReturns ==
    (last.op = "transition" /\ last.pre.variant = last.node) =>
        /\ IsSome(last.next) <=> HasData(G, last.to)
        /\ \A m \in DOMAIN machine :
              /\ machine[m].outcome = "ok"
              /\ machine[m].state.variant = last.to
              /\ machine[m].state.data =
                    (IF HasData(G, last.to) THEN last.next ELSE None)
              /\ machine[m].ret =
                    (IF HasData(G, last.node) THEN last.pre.data ELSE None)

TransitionInstallsAndReturnsWitness ==
    /\ last.op = "transition"
    /\ last.pre.variant = last.node
    /\ HasData(G, last.node)
    /\ HasData(G, last.to)
    /\ last.next # last.pre.data
    /\ \A m \in DOMAIN machine :
          machine[m].ret = last.pre.data /\ machine[m].state.data = last.next

(***************************************************************************)
(* C5 (as amended).  In the checked flavour, a transition method called    *)
(* on a handle whose container does not hold the handle's variant first    *)
(* replaces the container's value and then looks at the old one: the call  *)
(* panics, and the container is left holding the destination variant.      *)
(***************************************************************************)
MismatchedCall ==
    /\ last.op = "transition"
    /\ last.pre.variant # last.node
    /\ "checked" \in DOMAIN machine

MismatchPanicsAfterReplace ==
    MismatchedCall =>
        /\ machine["checked"].outcome = "panic"
        /\ machine["checked"].state = StateValue(G, last.to, last.next)

MismatchPanicsAfterReplaceWitness ==
    /\ MismatchedCall
    /\ machine["checked"].outcome = "panic"
    /\ machine["checked"].state.variant # last.pre.variant

\* C5 as stated: the failed call does not change the container.
MismatchLeavesContainer ==
    MismatchedCall =>
        /\ machine["checked"].outcome = "panic"
        /\ machine["checked"].state = last.pre

(***************************************************************************)
(* C6.  The checked and the unsafe flavour of a machine differ only in     *)
(* the mismatch arm: a call that finds a mismatch panics in the checked    *)
(* flavour and is undefined in the unsafe one; up to such a call the two   *)
(* hold the same container and return the same values.                     *)
(***************************************************************************)
UnsafeDiffersOnlyOnMismatch ==
    ({"checked", "unsafe"} \subseteq DOMAIN machine) =>
        /\ machine["checked"].outcome \in {"ok", "panic"}
        /\ machine["unsafe"].outcome \in {"ok", "ub"}
        /\ machine["checked"].outcome = "panic" <=> machine["unsafe"].outcome = "ub"
        /\ machine["checked"].outcome = "ok" => machine["checked"] = machine["unsafe"]
        /\ machine["checked"].outcome = "panic" <=>
              (/\ last.op \in {"as_ref", "as_mut", "transition"}
               /\ last.pre.variant # last.node)

UnsafeDiffersOnlyOnMismatchWitness ==
    /\ {"checked", "unsafe"} \subseteq DOMAIN machine
    /\ last.op = "transition"
    /\ IsSome(machine["unsafe"].ret)
    /\ machine["checked"] = machine["unsafe"]

(***************************************************************************)
(* What an input declares, read off the statement list itself.             *)
(***************************************************************************)
StmtPairs(s) ==
    LET c == ChainIdents(s)
    IN [i \in 1..(Len(c) - 1) |-> <<c[i], c[i + 1]>>]

RECURSIVE DeclaredPairs(_)
DeclaredPairs(ss) ==
    IF ss = <<>> THEN <<>>
    ELSE (IF Head(ss).kind = "Edges" THEN StmtPairs(Head(ss)) ELSE <<>>)
            \o DeclaredPairs(Tail(ss))

RepeatsPair(ss) ==
    LET ps == DeclaredPairs(ss)
    IN \E i, j \in DOMAIN ps : i < j /\ ps[i] = ps[j]

NodeStmtIx(ss) == {i \in DOMAIN ss : ss[i].kind = "Node"}

RepeatsNode(ss) ==
    \E i, j \in NodeStmtIx(ss) : i < j /\ ss[i].ident = ss[j].ident

HasTransition(ss) == \E i \in DOMAIN ss : ss[i].kind = "Edges"

TypesAgree(t1, t2) == t1 = t2 \/ t1 = None \/ t2 = None

ConflictingRedeclaration(ss) ==
    \E i, j \in NodeStmtIx(ss) :
        /\ i < j
        /\ ss[i].ident = ss[j].ident
        /\ ~TypesAgree(ss[i].ty, ss[j].ty)

AgreeingRedeclaration(ss) ==
    /\ RepeatsNode(ss)
    /\ ~ConflictingRedeclaration(ss)

\* The payload type the node statements of `ss` declare for `ident`.
DeclaredType(ss, ident) ==
    IF \E i \in NodeStmtIx(ss) : ss[i].ident = ident /\ IsSome(ss[i].ty)
    THEN (CHOOSE i \in NodeStmtIx(ss) :
              ss[i].ident = ident /\ IsSome(ss[i].ty)).ty
    ELSE None

\* The documentation of the node statements of `ss` for `ident`, in order,
\* the fragments of two statements separated by an empty line.
RECURSIVE JoinedDocs(_, _)
JoinedDocs(ss, ident) ==
    IF ss = <<>> THEN <<>>
    ELSE LET s == Head(ss)
             tl == JoinedDocs(Tail(ss), ident)
         IN IF s.kind = "Node" /\ s.ident = ident /\ s.attrs # <<>>
            THEN (IF tl = <<>> THEN s.attrs ELSE s.attrs \o <<"">> \o tl)
            ELSE tl

Built == result.tag # "Pending"

NoEdgeMsg == "must define at least one edge"

EmptyEdgeSetRejected ==
    /\ (Built /\ ~HasTransition(stmts)) => result = Err(NoEdgeMsg)
    /\ result.tag = "Ok" => DOMAIN result.edges # {}

(***************************************************************************)
(* C9.  Two node statements for one name with different payload types are  *)
(* rejected with "incompatible redefinition", in either order.             *)
(***************************************************************************)
IncompatibleMsg == "incompatible redefinition"

ConflictingTypesRejected ==
    (Built /\ ConflictingRedeclaration(stmts)) => result = Err(IncompatibleMsg)

(***************************************************************************)
(* C10.  Node statements that repeat a name with agreeing payload types    *)
(* (equal, or omitted on one side) are accepted: the result has the one    *)
(* node, with the declared type and the joined documentation.              *)
(***************************************************************************)
AgreeingRedeclarationMerged ==
    (/\ Built
     /\ AgreeingRedeclaration(stmts)
     /\ HasTransition(stmts)
     /\ ~RepeatsPair(stmts)) =>
        /\ result.tag = "Ok"
        /\ \A i \in NodeStmtIx(stmts) :
              /\ stmts[i].ident \in DOMAIN result.nodes
              /\ result.nodes[stmts[i].ident] =
                    NodeData(DeclaredType(stmts, stmts[i].ident),
                             JoinedDocs(stmts, stmts[i].ident))

(***************************************************************************)
(* C11.  A node declared with a payload type and also named in a chain,    *)
(* without a type, is one node of the result, with the declared type and   *)
(* documentation, whether the chain is written before or after the node    *)
(* statement: a chain never resets the payload and never makes the build   *)
(* fail with "duplicate node definition".                                  *)
(***************************************************************************)
NamedInChain(ss, ident) ==
    \E i \in DOMAIN ss :
        /\ ss[i].kind = "Edges"
        /\ \E k \in DOMAIN ChainIdents(ss[i]) : ChainIdents(ss[i])[k] = ident

ChainKeepsDeclaration ==
    Built =>
        /\ result = Err(DupNodeMsg) => RepeatsNode(stmts)
        /\ result.tag = "Ok" =>
              \A i \in NodeStmtIx(stmts) :
                  /\ stmts[i].ident \in DOMAIN result.nodes
                  /\ result.nodes[stmts[i].ident] =
                        NodeData(stmts[i].ty, stmts[i].attrs)

\* The chain B -"note"-> A -> B first, the statement `A: String` after it.
ChainKeepsDeclarationWitness ==
    /\ Len(stmts) = 2
    /\ stmts[1].kind = "Edges"
    /\ stmts[2] = StmtNode(<<"about A">>, "A", Some("String"))
    /\ NamedInChain(stmts, "A")
    /\ result.tag = "Ok"
    /\ result.nodes["A"] = NodeData(Some("String"), <<"about A">>)
    /\ result.nodes["B"] = NodeData(None, <<>>)

(***************************************************************************)
(* C12.  In every graph the builder returns, both endpoints of every edge  *)
(* are keys of the node map.                                               *)
(***************************************************************************)
EdgeEndpointsAreNodes ==
    result.tag = "Ok" =>
        \A e \in DOMAIN result.edges :
            e[1] \in DOMAIN result.nodes /\ e[2] \in DOMAIN result.nodes

\* Both endpoints named by chains only, never by a node statement.
EdgeEndpointsAreNodesWitness ==
    /\ result.tag = "Ok"
    /\ NodeStmtIx(stmts) = {}
    /\ <<"A", "B">> \in DOMAIN result.edges
    /\ {"A", "B"} \subseteq DOMAIN result.nodes

(***************************************************************************)
(* Identifiers as text.  An identifier is a string; SubSeq gives its       *)
(* characters.  NodeId derives Ord from the identifier, which compares     *)
(* the text byte by byte.                                                  *)
(***************************************************************************)
Ascii == "0123456789ABCDEFGHIJKLMNOPQRSTUVWXYZ_abcdefghijklmnopqrstuvwxyz"

CharAt(s, i) == SubSeq(s, i, i)

\* The rank of a character among the characters of identifiers.
Byte(c) == CHOOSE i \in 1..Len(Ascii) : CharAt(Ascii, i) = c

\* str::cmp(a, b) = Less, looking from position i on.
RECURSIVE StrLt(_, _, _)
StrLt(a, b, i) ==
    IF i > Len(b) THEN FALSE
    ELSE IF i > Len(a) THEN TRUE
    ELSE IF CharAt(a, i) = CharAt(b, i) THEN StrLt(a, b, i + 1)
    ELSE Byte(CharAt(a, i)) < Byte(CharAt(b, i))

NodeIdGt(a, b) == StrLt(b, a, 1)

NodeIdLt(a, b) == StrLt(a, b, 1)

\* Ord of the key (NodeId, NodeId) of Graph::edges.
EdgeKeyLt(e, f) ==
    NodeIdLt(e[1], f[1]) \/ (e[1] = f[1] /\ NodeIdLt(e[2], f[2]))

\* BTreeMap::iter(): the node keys, the edge keys, in ascending order.
RECURSIVE NodeKeys(_)
NodeKeys(S) ==
    IF S = {} THEN <<>>
    ELSE LET m == CHOOSE x \in S : \A y \in S \ {x} : NodeIdLt(x, y)
         IN <<m>> \o NodeKeys(S \ {m})

RECURSIVE EdgeKeys(_)
EdgeKeys(S) ==
    IF S = {} THEN <<>>
    ELSE LET m == CHOOSE x \in S : \A y \in S \ {x} : EdgeKeyLt(x, y)
         IN <<m>> \o EdgeKeys(S \ {m})

(***************************************************************************)
(* graph.rs: Graph::outgoing, Graph::incoming, Graph::nodes and Kind.      *)
(* A graph is a record with the maps nodes and edges.                      *)
(***************************************************************************)
GraphOutgoing(self, from) ==
    LET Hit(k) == k[1] = from
        hits == SelectSeq(EdgeKeys(DOMAIN self.edges), Hit)
    IN [i \in DOMAIN hits |->
           [id |-> hits[i][2], data |-> self.nodes[hits[i][2]],
            edge |-> self.edges[hits[i]]]]

GraphIncoming(self, to) ==
    LET Hit(k) == k[2] = to
        hits == SelectSeq(EdgeKeys(DOMAIN self.edges), Hit)
    IN [i \in DOMAIN hits |->
           [id |-> hits[i][1], data |-> self.nodes[to],
            edge |-> self.edges[hits[i]]]]

Isolate == [kind |-> "Isolate"]
Source(out) == [kind |-> "Source", outgoing |-> out]
Sink(inc) == [kind |-> "Sink", incoming |-> inc]
NonTerminal(inc, out) == [kind |-> "NonTerminal", incoming |-> inc, outgoing |-> out]

\* match (incoming.is_empty(), outgoing.is_empty())
KindSwapped(inc, out) ==
    CASE inc = <<>> /\ out = <<>> -> Isolate
      [] inc = <<>> /\ out # <<>> -> Sink(out)
      [] inc # <<>> /\ out = <<>> -> Source(inc)
      [] inc # <<>> /\ out # <<>> -> NonTerminal(inc, out)

Kind(inc, out) ==
    CASE inc = <<>> /\ out = <<>> -> Isolate
      [] inc = <<>> /\ out # <<>> -> Source(out)
      [] inc # <<>> /\ out = <<>> -> Sink(inc)
      [] inc # <<>> /\ out # <<>> -> NonTerminal(inc, out)

GraphNodes(self) ==
    LET keys == NodeKeys(DOMAIN self.nodes)
    IN [i \in DOMAIN keys |->
           [nid |-> keys[i], data |-> self.nodes[keys[i]],
            kind |-> Kind(GraphIncoming(self, keys[i]),
                          GraphOutgoing(self, keys[i]))]]

(***************************************************************************)
(* Generation as a state machine: an input, the builder, then any number   *)
(* of walks over the graph.                                                *)
(***************************************************************************)
\* enum Road { Start -> Fork -> End, Fork -> Start }
RoadDsl ==
    << StmtEdges(<<>>, "Start", Short, "Fork", << <<Short, "End">> >>),
       StmtEdges(<<>>, "Fork", Short, "Start", <<>>) >>

\* One node of every role and every shape.
ShapesDsl ==
    << StmtNode(<<>>, "DesertIsland", None),
       StmtNode(<<>>, "BeautifulBridge", Some("VecU8")),
       StmtNode(<<>>, "Tombstone", Some("char")),
       StmtEdges(<<>>, "Stream", Short, "BeautifulBridge",
                 << <<Short, "Tombstone">> >>) >>

\* Two targets whose names convert to one method name.
SiblingsDsl ==
    << StmtEdges(<<>>, "A", Short, "FooBar", <<>>),
       StmtEdges(<<>>, "A", Short, "foo_bar", <<>>) >>

LoopDsl == << StmtEdges(<<>>, "A", Short, "A", <<>>) >>

\* A connector with a payload and a transition to a node called Get.
GetterDsl ==
    << StmtNode(<<"a door">>, "Door", Some("String")),
       StmtEdges(<<>>, "Door", Short, "Get", <<>>) >>

\* Nodes that bear the first two pairs of accessor names.
TakenDsl ==
    << StmtNode(<<>>, "Door", Some("String")),
       StmtEdges(<<>>, "Door", Short, "get", << <<Short, "get_data_mut">> >>) >>

GenInputs == {RoadDsl, ShapesDsl, SiblingsDsl, LoopDsl, GetterDsl, TakenDsl}

InitGen ==
    /\ stmts \in GenInputs
    /\ result = Pending
    /\ gname = "none"
    /\ machine = Idle
    /\ handles = {}
    /\ last = Idle
    /\ initial = Idle
    /\ tainted = FALSE
    /\ halted = FALSE
    /\ NoGen
    /\ NoParse
    /\ NoTools

\* for (nid, data, kind) in graph.nodes()
Nodes ==
    /\ result.tag = "Ok"
    /\ kinds = Idle
    /\ kinds' = [tag |-> "Nodes", items |-> GraphNodes(result)]
    /\ UNCHANGED <<stmts, result, runVars, previous, generated, parseVars, toolVars>>

(***************************************************************************)
(* IdentExt::snake_case and IdentExt::UpperCamelCase: the conversions of   *)
(* the crate heck, applied to the text of the identifier.  The text is     *)
(* split at every character that is not alphanumeric; each piece is cut    *)
(* into words where a lowercase letter (or a digit after one) is followed  *)
(* by an uppercase letter, and before the last capital of a run of         *)
(* capitals that is followed by a lowercase letter.                        *)
(***************************************************************************)
Uppers == "ABCDEFGHIJKLMNOPQRSTUVWXYZ"
Lowers == "abcdefghijklmnopqrstuvwxyz"
Digits == "0123456789"

\* char::to_lowercase and char::to_uppercase on the letters that have one.
LowerOf ==
    [c \in {CharAt(Uppers, i) : i \in 1..Len(Uppers)} |->
        CharAt(Lowers, CHOOSE i \in 1..Len(Uppers) : CharAt(Uppers, i) = c)]

UpperOf ==
    [c \in {CharAt(Lowers, i) : i \in 1..Len(Lowers)} |->
        CharAt(Uppers, CHOOSE i \in 1..Len(Lowers) : CharAt(Lowers, i) = c)]

DigitChars == {CharAt(Digits, i) : i \in 1..Len(Digits)}

is_uppercase(c) == c \in DOMAIN LowerOf
is_lowercase(c) == c \in DOMAIN UpperOf
is_alphanumeric(c) == is_uppercase(c) \/ is_lowercase(c) \/ c \in DigitChars

to_lowercase_char(c) == IF is_uppercase(c) THEN LowerOf[c] ELSE c
to_uppercase_char(c) == IF is_lowercase(c) THEN UpperOf[c] ELSE c

RECURSIVE to_lowercase(_)
to_lowercase(str) ==
    IF Len(str) = 0 THEN ""
    ELSE to_lowercase_char(CharAt(str, 1)) \o to_lowercase(SubSeq(str, 2, Len(str)))

\* heck's capitalize: the first character upper, the others lower.
capitalize(str) ==
    IF Len(str) = 0 THEN ""
    ELSE to_uppercase_char(CharAt(str, 1)) \o to_lowercase(SubSeq(str, 2, Len(str)))

\* s.split(|c| !c.is_alphanumeric()): the pieces, empty ones included.
RECURSIVE split(_, _, _)
split(str, i, piece) ==
    IF i > Len(str) THEN <<piece>>
    ELSE IF is_alphanumeric(CharAt(str, i))
         THEN split(str, i + 1, piece \o CharAt(str, i))
         ELSE <<piece>> \o split(str, i + 1, "")

\* The loop over the characters of one piece: i is the current position,
\* init the start of the word being collected, mode what the characters
\* of the word so far were.
RECURSIVE words_of(_, _, _, _)
words_of(word, i, init, mode) ==
    IF i > Len(word) THEN <<>>
    ELSE IF i = Len(word) THEN <<SubSeq(word, init, Len(word))>>
    ELSE LET c == CharAt(word, i)
             next == CharAt(word, i + 1)
             next_mode == IF is_lowercase(c) THEN "Lowercase"
                          ELSE IF is_uppercase(c) THEN "Uppercase"
                          ELSE mode
         IN IF next_mode = "Lowercase" /\ is_uppercase(next)
            THEN <<SubSeq(word, init, i)>> \o words_of(word, i + 1, i + 1, "Boundary")
            ELSE IF mode = "Uppercase" /\ is_uppercase(c) /\ is_lowercase(next)
            THEN <<SubSeq(word, init, i - 1)>> \o words_of(word, i + 1, i, "Boundary")
            ELSE words_of(word, i + 1, init, next_mode)

RECURSIVE transform(_)
transform(pieces) ==
    IF pieces = <<>> THEN <<>>
    ELSE words_of(Head(pieces), 1, 1, "Boundary") \o transform(Tail(pieces))

RECURSIVE join_snake(_)
join_snake(ws) ==
    IF ws = <<>> THEN ""
    ELSE IF Len(ws) = 1 THEN to_lowercase(ws[1])
    ELSE to_lowercase(ws[1]) \o "_" \o join_snake(Tail(ws))

RECURSIVE join_camel(_)
join_camel(ws) ==
    IF ws = <<>> THEN "" ELSE capitalize(ws[1]) \o join_camel(Tail(ws))

\* A conversion that only lowers the letters, without cutting into words.
lowercase_only(ident) == to_lowercase(ident)

snake_case(ident) == join_snake(transform(split(ident, 1, "")))

UpperCamelCase(ident) == join_camel(transform(split(ident, 1, "")))

(***************************************************************************)
(* dsl.rs: the token stream of the body of the enum.  A documentation      *)
(* attribute and a parenthesised payload type are one token each; `->` is  *)
(* one token, the `-` that opens a named arrow another.                    *)
(***************************************************************************)
RECURSIVE Flatten(_)
Flatten(seqs) ==
    IF seqs = <<>> THEN <<>> ELSE Head(seqs) \o Flatten(Tail(seqs))

TIdent(name) == [t |-> "Ident", name |-> name]
TParen(ty) == [t |-> "Paren", ty |-> ty]
TDoc(str) == [t |-> "Doc", str |-> str]
TAnd == [t |-> "And"]
TRArrow == [t |-> "RArrow"]
TMinus == [t |-> "Minus"]
TComma == [t |-> "Comma"]

MaxPieces == 5

\* What the bounded inputs are put together from: a node, `&`, `->`,
\* `-go->`, `,`.
Pieces ==
    { <<TIdent("A")>>, <<TIdent("B")>>, <<TAnd>>, <<TRArrow>>,
      <<TMinus, TIdent("go"), TRArrow>>, <<TComma>> }

\* The statements of tests! full and tests! simple (core/tests/test.rs).
FullStmts ==
    << << TDoc("An isolated vertex with data."),
          TIdent("PopulatedIsland"), TParen("String") >>,
       << TDoc("An isolated vertex without data."), TIdent("DesertIsland") >>,
       << TDoc("A source vertex with data."),
          TIdent("Fountain"), TParen("RefMutT"),
          TDoc("I've overridden transition method name"),
          TMinus, TIdent("fountain2bridge"), TRArrow,
          TDoc("A non-terminal vertex with data"),
          TIdent("BeautifulBridge"), TParen("VecU8"),
          TMinus, TIdent("bridge2tombstone"), TRArrow,
          TDoc("A sink vertex with data"),
          TIdent("Tombstone"), TParen("char") >>,
       << TIdent("Fountain"), TRArrow, TIdent("Plank"), TRArrow,
          TIdent("UnmarkedGrave") >>,
       << TIdent("Stream"), TRArrow, TIdent("BeautifulBridge") >>,
       << TIdent("Stream"), TRArrow, TIdent("Plank") >> >>

SimpleStmts ==
    << << TIdent("Start"), TRArrow, TIdent("Fork"), TRArrow, TIdent("End") >>,
       << TIdent("Fork"), TRArrow, TIdent("Start") >> >>

\* The statements written in the order p, each followed by a comma.
RECURSIVE Written(_, _)
Written(chunks, p) ==
    IF p = <<>> THEN <<>>
    ELSE chunks[Head(p)] \o <<TComma>> \o Written(chunks, Tail(p))

Reordered(chunks) == {Written(chunks, p) : p \in Perms(DOMAIN chunks)}

FullInputs == Reordered(FullStmts)
SimpleInputs == Reordered(SimpleStmts)

TokenInputs ==
    {Flatten(ps) : ps \in SeqsUpTo(Pieces, MaxPieces)}
        \cup FullInputs \cup SimpleInputs

TokenIdents ==
    {"A", "B", "go"}
        \cup UNION {{c[k].name : k \in {k \in DOMAIN c : c[k].t = "Ident"}} :
                        c \in {FullStmts[i] : i \in DOMAIN FullStmts}
                              \cup {SimpleStmts[i] : i \in DOMAIN SimpleStmts}}

\* The identifiers of the inputs of generation and their conversions,
\* computed once.
StmtIdents(st) == IF st.kind = "Node" THEN {st.ident}
                  ELSE {ChainIdents(st)[k] : k \in DOMAIN ChainIdents(st)}

InputIdents ==
    TokenIdents
        \cup UNION {UNION {StmtIdents(ss[k]) : k \in DOMAIN ss} : ss \in GenInputs}

Converted ==
    [n \in InputIdents |->
        [snake |-> snake_case(n), camel |-> UpperCamelCase(n)]]

\* NodeId::transition_fn, NodeId::variant, FSMGenerator::transition_ty
transition_fn(node) ==
    IF node \in InputIdents THEN Converted[node].snake ELSE snake_case(node)

variant(node) ==
    IF node \in InputIdents THEN Converted[node].camel ELSE UpperCamelCase(node)

transition_ty(node) == variant(node)

(***************************************************************************)
(* FSMGenerator::codegen.                                                  *)
(*                                                                         *)
(* The generator holds its nodes and edges in HashMaps.  The order in      *)
(* which a HashMap yields its entries is fixed by the hasher state the map *)
(* was created with, and every map gets a new one (RandomState): node_iter *)
(* and edge_iter are the orders of self.nodes.iter() and self.edges.iter() *)
(* in one run.  The output is the five lists codegen pushes to.  Every     *)
(* item records the node it was emitted for.                               *)
(***************************************************************************)
\* FSMGenerator::outgoing, with the order of the vector it collects.
outgoing_vec_unfiltered(gen, edge_iter, from) ==
    LET vec == [i \in DOMAIN edge_iter |-> <<edge_iter[i][2], gen.edges[edge_iter[i]]>>]
    IN IF vec = <<>> THEN None ELSE Some(vec)

outgoing_vec(gen, edge_iter, from) ==
    LET Hit(k) == k[1] = from
        hits == SelectSeq(edge_iter, Hit)
        vec == [i \in DOMAIN hits |-> <<hits[i][2], gen.edges[hits[i]]>>]
    IN IF vec = <<>> THEN None ELSE Some(vec)

\* FSMGenerator::incoming, with the order of the vector it collects.
incoming_vec_by_src(gen, edge_iter, to) ==
    LET Hit(k) == k[1] = to
        hits == SelectSeq(edge_iter, Hit)
        vec == [i \in DOMAIN hits |-> hits[i][2]]
    IN IF vec = <<>> THEN None ELSE Some(vec)

incoming_vec(gen, edge_iter, to) ==
    LET Hit(k) == k[2] = to
        hits == SelectSeq(edge_iter, Hit)
        vec == [i \in DOMAIN hits |-> hits[i][1]]
    IN IF vec = <<>> THEN None ELSE Some(vec)

\* FSMGenerator::reachability_docs.  The lines are the source's, with
\* apostrophes for its backticks.
ReachableFromMsg == "This node is reachable from the following states:"
CanReachMsg == "This node can reach the following states:"

Bullet(each) == "- ['State::" \o variant(each) \o "']"

Bullets(vec) == [i \in DOMAIN vec |-> Bullet(vec[i])]

OutgoingNodes(vec) == [i \in DOMAIN vec |-> vec[i][1]]

\* let mut docs = vec![]; if let Some(incoming) = .. { heading, bullets }
\* if let Some(outgoing) = .. { blank line if !docs.is_empty(), heading, bullets }
reach_lines(inc, out) ==
    (IF inc # None THEN <<ReachableFromMsg>> \o Bullets(inc[1]) ELSE <<>>)
        \o (IF inc # None /\ out # None THEN <<"">> ELSE <<>>)
        \o (IF out # None
            THEN <<CanReachMsg>> \o Bullets(OutgoingNodes(out[1]))
            ELSE <<>>)

\* match docs.is_empty() { true => None, false => Some(docs) }
NonEmpty(docs) == IF docs = <<>> THEN None ELSE Some(docs)

reachability_docs(gen, edge_iter, node) ==
    NonEmpty(reach_lines(incoming_vec(gen, edge_iter, node),
                         outgoing_vec(gen, edge_iter, node)))

\* let mut node_docs = node_docs.clone(); .. node_docs.extend(reachability_docs)
extend_docs(node_docs, reach) ==
    IF reach = None THEN node_docs
    ELSE (IF node_docs # <<>> THEN Append(node_docs, "") ELSE node_docs)
            \o reach[1]

NodeDocs(gen, edge_iter, node) ==
    extend_docs(gen.nodes[node].docs, reachability_docs(gen, edge_iter, node))

\* FSMGenerator::getter_names.  names_of(stem, n) is stem and stem_mut with n
\* underscores appended, n = 0, 1, ..; the two sequences are interleaved and
\* the first pair neither name of which is a node is returned.
RECURSIVE Underscores(_)
Underscores(n) == IF n = 0 THEN "" ELSE "_" \o Underscores(n - 1)

names_of(stem, n) ==
    <<stem \o Underscores(n), stem \o "_mut" \o Underscores(n)>>

Interleave(k) ==
    IF k % 2 = 0 THEN names_of("get", k \div 2)
    ELSE names_of("get_data", k \div 2)

RECURSIVE GetterNamesFrom(_, _)
GetterNamesFrom(gen, k) ==
    LET get == Interleave(k)[1]
        get_mut == Interleave(k)[2]
    IN IF get \in DOMAIN gen.nodes THEN GetterNamesFrom(gen, k + 1)
       ELSE IF get_mut \in DOMAIN gen.nodes THEN GetterNamesFrom(gen, k + 1)
       ELSE <<get, get_mut>>

getter_names(gen) == GetterNamesFrom(gen, 0)

\* One turn of `for (outgoing, transition_docs) in outgoing`.
TransitionImpl(gen, node, to, transition_docs) ==
    [item |-> "fn", node |-> node, to |-> to,
     self_ty |-> transition_ty(node),
     name |-> transition_fn(to),
     installs |-> variant(to),
     next |-> gen.nodes[to].ty,
     returns |-> gen.nodes[node].ty,
     docs |-> transition_docs]

GetterImpl(gen, node) ==
    [item |-> "getters", node |-> node, self_ty |-> transition_ty(node),
     ty |-> gen.nodes[node].ty,
     get |-> getter_names(gen)[1], get_mut |-> getter_names(gen)[2]]

\* One turn of `for (node, NodeData { .. }) in self.nodes.iter()`:
\* match (node_ty, self.outgoing(node)).
EmitNodeNoConnector(gen, edge_iter, node) ==
    LET node_ty == gen.nodes[node].ty
        state == [node |-> node, name |-> variant(node), ty |-> node_ty]
    IN [state_variants |-> <<state>>,
        entry_variants |->
            << [node |-> node, name |-> variant(node),
                shape |-> IF node_ty = None THEN "bare" ELSE "reference",
                of |-> node_ty] >>,
        entry_construction |-> << [node |-> node, name |-> variant(node)] >>,
        transition_tys |-> <<>>,
        transition_impls |-> <<>>]

EmitNode(gen, edge_iter, node) ==
    LET node_ty == gen.nodes[node].ty
        out == outgoing_vec(gen, edge_iter, node)
        state == [node |-> node, name |-> variant(node), ty |-> node_ty,
                  docs |-> NodeDocs(gen, edge_iter, node)]
        arm == [node |-> node, name |-> variant(node)]
    IN CASE node_ty = None /\ out = None ->
              [state_variants |-> <<state>>,
               entry_variants |->
                   << [node |-> node, name |-> variant(node),
                       shape |-> "bare", of |-> None] >>,
               entry_construction |-> <<arm>>,
               transition_tys |-> <<>>,
               transition_impls |-> <<>>]
         [] node_ty # None /\ out = None ->
              [state_variants |-> <<state>>,
               entry_variants |->
                   << [node |-> node, name |-> variant(node),
                       shape |-> "reference", of |-> node_ty] >>,
               entry_construction |-> <<arm>>,
               transition_tys |-> <<>>,
               transition_impls |-> <<>>]
         [] out # None ->
              [state_variants |-> <<state>>,
               entry_variants |->
                   << [node |-> node, name |-> variant(node),
                       shape |-> "connector",
                       of |-> Some(transition_ty(node))] >>,
               entry_construction |-> <<arm>>,
               transition_tys |->
                   << [node |-> node, name |-> transition_ty(node)] >>,
               transition_impls |->
                   (IF node_ty # None THEN <<GetterImpl(gen, node)>> ELSE <<>>)
                   \o [i \in DOMAIN out[1] |->
                          TransitionImpl(gen, node, out[1][i][1], out[1][i][2])]]

Codegen(gen, node_iter, edge_iter) ==
    LET each == [i \in DOMAIN node_iter |-> EmitNode(gen, edge_iter, node_iter[i])]
    IN [state_variants |-> Flatten([i \in DOMAIN each |-> each[i].state_variants]),
        entry_variants |-> Flatten([i \in DOMAIN each |-> each[i].entry_variants]),
        entry_construction |->
            Flatten([i \in DOMAIN each |-> each[i].entry_construction]),
        transition_tys |-> Flatten([i \in DOMAIN each |-> each[i].transition_tys]),
        transition_impls |->
            Flatten([i \in DOMAIN each |-> each[i].transition_impls])]

\* The orders a HashMap with the keys S can yield them in.
HashMapIter(S) == Perms(S)

\* One run of the generator on the input: the maps are built, codegen walks
\* them in the order of this run.
CodegenRun ==
    /\ result.tag = "Ok"
    /\ \E node_iter \in HashMapIter(DOMAIN result.nodes),
          edge_iter \in HashMapIter(DOMAIN result.edges) :
            generated' = Codegen(result, node_iter, edge_iter)
    /\ previous' = generated
    /\ UNCHANGED <<stmts, result, runVars, kinds, parseVars, toolVars>>

NextGen ==
    \/ ParseDsl
    \/ Nodes
    \/ CodegenRun

SpecGen == InitGen /\ [][NextGen]_vars

(***************************************************************************)
(* dsl.rs: Root::parse, over the token stream ts from position p on.       *)
(* A parser returns its value with the position after it, or an error.     *)
(***************************************************************************)
\* The messages, their backquotes written as apostrophes.
NamedGroupMsg == "Named transitions ('-name->') to node groups ('A & B') are not supported, since it requires duplicate method names"
GroupMsg == "Node groups ('A & B') must be followed by transitions ('->')"

Plain == [kind |-> "Plain"]
Named(ident) == [kind |-> "Named", ident |-> ident]

Parsed(statements) == [tag |-> "Ok", stmts |-> statements]

is_empty(ts, p) == p > Len(ts)

\* input.peek(..): `->` begins with `-`, so peek(Token![-]) sees it too.
peek(ts, p, token) == p <= Len(ts) /\ ts[p].t \in token

RECURSIVE parse_docs(_, _)
parse_docs(ts, p) ==
    IF peek(ts, p, {"Doc"})
    THEN LET r == parse_docs(ts, p + 1)
         IN [docs |-> <<ts[p].str>> \o r.docs, pos |-> r.pos]
    ELSE [docs |-> <<>>, pos |-> p]

\* impl Parse for Node
ParseNode(ts, p) ==
    LET d == parse_docs(ts, p)
    IN IF ~peek(ts, d.pos, {"Ident"}) THEN Err("expected identifier")
       ELSE IF peek(ts, d.pos + 1, {"Paren"})
       THEN [tag |-> "Ok", pos |-> d.pos + 2,
             node |-> [doc |-> d.docs, name |-> ts[d.pos].name,
                       ty |-> Some(ts[d.pos + 1].ty)]]
       ELSE [tag |-> "Ok", pos |-> d.pos + 1,
             node |-> [doc |-> d.docs, name |-> ts[d.pos].name, ty |-> None]]

\* impl Parse for NodeGroup: Punctuated::parse_separated_nonempty
RECURSIVE ParseNodeGroup(_, _)
ParseNodeGroup(ts, p) ==
    LET n == ParseNode(ts, p)
    IN IF n.tag = "Err" THEN n
       ELSE IF peek(ts, n.pos, {"And"})
       THEN LET r == ParseNodeGroup(ts, n.pos + 1)
            IN IF r.tag = "Err" THEN r
               ELSE [tag |-> "Ok", pos |-> r.pos, group |-> <<n.node>> \o r.group]
       ELSE [tag |-> "Ok", pos |-> n.pos, group |-> <<n.node>>]

\* impl Parse for ArrowKind
ParseArrowKind(ts, p) ==
    IF peek(ts, p, {"RArrow"}) THEN [tag |-> "Ok", pos |-> p + 1, kind |-> Plain]
    ELSE IF ~peek(ts, p, {"Minus"}) THEN Err("expected '-'")
    ELSE IF ~peek(ts, p + 1, {"Ident"}) THEN Err("expected identifier")
    ELSE IF ~peek(ts, p + 2, {"RArrow"}) THEN Err("expected '->'")
    ELSE [tag |-> "Ok", pos |-> p + 3, kind |-> Named(ts[p + 1].name)]

\* impl Parse for Arrow
ParseArrow(ts, p) ==
    LET d == parse_docs(ts, p)
        k == ParseArrowKind(ts, d.pos)
    IN IF k.tag = "Err" THEN k
       ELSE [tag |-> "Ok", pos |-> k.pos, arrow |-> [doc |-> d.docs, kind |-> k.kind]]

\* next.into_iter().len() > 1 && matches!(arrow.kind, ArrowKind::Named { .. })
NamedIntoGroupIgnored(arrow, next) == FALSE

NamedIntoGroup(arrow, next) == Len(next) > 1 /\ arrow.kind.kind = "Named"

\* while content.peek(Token![-]) || content.peek(Token![#]) { .. }
RECURSIVE ParseRest(_, _, _)
ParseRest(ts, p, rest) ==
    IF peek(ts, p, {"Minus", "RArrow", "Doc"})
    THEN LET a == ParseArrow(ts, p)
         IN IF a.tag = "Err" THEN a
            ELSE LET n == ParseNodeGroup(ts, a.pos)
                 IN IF n.tag = "Err" THEN n
                    ELSE IF NamedIntoGroup(a.arrow, n.group) THEN Err(NamedGroupMsg)
                    ELSE ParseRest(ts, n.pos, Append(rest, <<a.arrow, n.group>>))
    ELSE [tag |-> "Ok", pos |-> p, rest |-> rest]

\* One statement: a node, or a group followed by transitions.
ParseStatement(ts, p) ==
    LET fork == ParseNode(ts, p)
    IN IF fork.tag = "Err" THEN fork
       ELSE IF peek(ts, fork.pos, {"Comma"}) \/ is_empty(ts, fork.pos)
       THEN [tag |-> "Ok", pos |-> fork.pos,
             stmt |-> [kind |-> "Node", node |-> fork.node]]
       ELSE LET first == ParseNodeGroup(ts, p)
            IN IF first.tag = "Err" THEN first
               ELSE LET r == ParseRest(ts, first.pos, <<>>)
                    IN IF r.tag = "Err" THEN r
                       ELSE IF r.rest = <<>> THEN Err(GroupMsg)
                       ELSE [tag |-> "Ok", pos |-> r.pos,
                             stmt |-> [kind |-> "Transition",
                                       first |-> first.group, rest |-> r.rest]]

\* while !content.is_empty() { .. }
RECURSIVE ParseStmts(_, _, _)
ParseStmts(ts, p, statements) ==
    IF is_empty(ts, p) THEN Parsed(statements)
    ELSE LET st == ParseStatement(ts, p)
         IN IF st.tag = "Err" THEN st
            ELSE IF is_empty(ts, st.pos) THEN Parsed(Append(statements, st.stmt))
            ELSE IF peek(ts, st.pos, {"Comma"})
            THEN ParseStmts(ts, st.pos + 1, Append(statements, st.stmt))
            ELSE Err("expected ','")

RootParse(ts) == ParseStmts(ts, 1, <<>>)

InitParse ==
    /\ stmts = <<>>
    /\ result = Pending
    /\ gname = "none"
    /\ machine = Idle
    /\ handles = {}
    /\ last = Idle
    /\ initial = Idle
    /\ tainted = FALSE
    /\ halted = FALSE
    /\ NoGen
    /\ NoTools
    /\ tokens \in TokenInputs
    /\ root = Idle
    /\ graph = Idle
    /\ emitted = Idle

Parse ==
    /\ root = Idle
    /\ root' = RootParse(tokens)
    /\ UNCHANGED <<stmts, result, runVars, genVars, tokens, graph, emitted, toolVars>>

(***************************************************************************)
(* The graph builder over the statements of Root: node statements first,   *)
(* then the transitions.  A node named more than once is merged: the       *)
(* payload types must agree (or one be absent), the documentation is       *)
(* joined with an empty line.  Every pair of consecutive groups of a       *)
(* statement gives an edge from every node of the one to every node of     *)
(* the other, with the method name of its arrow.                           *)
(***************************************************************************)
Built2(nodes, edges) == [tag |-> "Ok", nodes |-> nodes, edges |-> edges]

EdgeData(doc, method_name) == [doc |-> doc, method_name |-> method_name]

\* The name of the arrow when it has one, else the converted target name.
MethodName(arrow, to) ==
    IF arrow.kind.kind = "Named" THEN arrow.kind.ident ELSE transition_fn(to)

MergeDocs(old, new) ==
    IF old = <<>> THEN new
    ELSE IF new = <<>> THEN old
    ELSE old \o <<"">> \o new

MergeNode(nodes, node) ==
    IF node.name \notin DOMAIN nodes
    THEN [tag |-> "Ok",
          nodes |-> nodes @@ (node.name :> [doc |-> node.doc, ty |-> node.ty])]
    ELSE LET old == nodes[node.name]
         IN IF old.ty # None /\ node.ty # None /\ old.ty # node.ty
            THEN Err(IncompatibleMsg)
            ELSE [tag |-> "Ok",
                  nodes |-> [nodes EXCEPT ![node.name] =
                                [doc |-> MergeDocs(old.doc, node.doc),
                                 ty |-> IF old.ty # None THEN old.ty ELSE node.ty]]]

RECURSIVE MergeNodes(_, _)
MergeNodes(nodes, group) ==
    IF group = <<>> THEN [tag |-> "Ok", nodes |-> nodes]
    ELSE LET r == MergeNode(nodes, Head(group))
         IN IF r.tag = "Err" THEN r ELSE MergeNodes(r.nodes, Tail(group))

\* The nodes a statement names, in the order it names them.
StatementNodes(st) ==
    IF st.kind = "Node" THEN <<st.node>>
    ELSE st.first \o Flatten([k \in DOMAIN st.rest |-> st.rest[k][2]])

\* The edges of one arrow: from every node of prev to every node of next.
RECURSIVE InsertPairs(_, _, _)
InsertPairs(edges, arrow, pairs) ==
    IF pairs = <<>> THEN [tag |-> "Ok", edges |-> edges]
    ELSE LET from == Head(pairs)[1]
             to == Head(pairs)[2]
         IN IF <<from, to>> \in DOMAIN edges THEN Err(DupEdgeMsg)
            ELSE InsertPairs(
                    edges @@ (<<from, to>> :>
                                 EdgeData(arrow.doc, MethodName(arrow, to))),
                    arrow, Tail(pairs))

GroupPairs(prev, next) ==
    Flatten([a \in DOMAIN prev |->
                [b \in DOMAIN next |-> <<prev[a].name, next[b].name>>]])

RECURSIVE InsertChain(_, _, _)
InsertChain(edges, prev, rest) ==
    IF rest = <<>> THEN [tag |-> "Ok", edges |-> edges]
    ELSE LET arrow == Head(rest)[1]
             next == Head(rest)[2]
             r == InsertPairs(edges, arrow, GroupPairs(prev, next))
         IN IF r.tag = "Err" THEN r ELSE InsertChain(r.edges, next, Tail(rest))

RECURSIVE FoldNodes(_, _)
FoldNodes(nodes, statements) ==
    IF statements = <<>> THEN [tag |-> "Ok", nodes |-> nodes]
    ELSE LET r == MergeNodes(nodes, StatementNodes(Head(statements)))
         IN IF r.tag = "Err" THEN r ELSE FoldNodes(r.nodes, Tail(statements))

RECURSIVE FoldEdges(_, _)
FoldEdges(edges, statements) ==
    IF statements = <<>> THEN [tag |-> "Ok", edges |-> edges]
    ELSE LET st == Head(statements)
             r == IF st.kind = "Node" THEN [tag |-> "Ok", edges |-> edges]
                  ELSE InsertChain(edges, st.first, st.rest)
         IN IF r.tag = "Err" THEN r ELSE FoldEdges(r.edges, Tail(statements))

IsNodeStatement(st) == st.kind = "Node"
IsTransition(st) == st.kind = "Transition"

BuildGraph(statements) ==
    LET ordered == SelectSeq(statements, IsNodeStatement)
                       \o SelectSeq(statements, IsTransition)
        ns == FoldNodes(<<>>, ordered)
        es == FoldEdges(<<>>, ordered)
    IN IF ns.tag = "Err" THEN ns
       ELSE IF es.tag = "Err" THEN es
       ELSE IF DOMAIN es.edges = {} THEN Err(NoEdgeMsg)
       ELSE Built2(ns.nodes, es.edges)

(***************************************************************************)
(* The emitter over a Graph: the variants, match arms and connector types  *)
(* in the order of Graph::nodes(), the accessors of the connectors with a  *)
(* payload in that order, the transition methods in the order of the edge  *)
(* map.                                                                    *)
(***************************************************************************)
IsConnector(item) == item.kind.kind \in {"Source", "NonTerminal"}
IsConnectorWithData(item) == IsConnector(item) /\ item.data.ty # None

EntryShape(item) ==
    IF IsConnector(item) THEN "connector"
    ELSE IF item.data.ty # None THEN "reference"
    ELSE "bare"

EmitGraph(self) ==
    LET items == GraphNodes(self)
        connectors == SelectSeq(items, IsConnector)
        withData == SelectSeq(items, IsConnectorWithData)
        keys == EdgeKeys(DOMAIN self.edges)
    IN [state_variants |-> [i \in DOMAIN items |-> items[i].nid],
        entry_variants |->
            [i \in DOMAIN items |->
                [name |-> items[i].nid, shape |-> EntryShape(items[i])]],
        entry_construction |-> [i \in DOMAIN items |-> items[i].nid],
        transition_tys |-> [i \in DOMAIN connectors |-> connectors[i].nid],
        accessors |-> [i \in DOMAIN withData |-> withData[i].nid],
        methods |->
            [i \in DOMAIN keys |->
                [on |-> keys[i][1], to |-> keys[i][2],
                 name |-> self.edges[keys[i]].method_name]]]

Build ==
    /\ root.tag = "Ok"
    /\ graph = Idle
    /\ graph' = BuildGraph(root.stmts)
    /\ UNCHANGED <<stmts, result, runVars, genVars, tokens, root, emitted, toolVars>>

Emit ==
    /\ graph.tag = "Ok"
    /\ emitted = Idle
    /\ emitted' = EmitGraph(graph)
    /\ UNCHANGED <<stmts, result, runVars, genVars, tokens, root, graph, toolVars>>

NextParse ==
    \/ Parse
    \/ Build
    \/ Emit

SpecParse == InitParse /\ [][NextParse]_vars

(***************************************************************************)
(* C13.  Graph::nodes() yields every node once, and the kind it gives a    *)
(* node is Isolate iff the node has no incoming and no outgoing edge,      *)
(* Source iff it has outgoing edges only, Sink iff it has incoming edges   *)
(* only, NonTerminal iff it has both.  For Start -> Fork -> End,           *)
(* Fork -> Start: Start and Fork are NonTerminal, End is Sink.             *)
(***************************************************************************)
HasIncomingEdge(n) == \E e \in DOMAIN result.edges : e[2] = n
HasOutgoingEdge(n) == \E e \in DOMAIN result.edges : e[1] = n

KindOfNode(n) ==
    LET i == CHOOSE i \in DOMAIN kinds.items : kinds.items[i].nid = n
    IN kinds.items[i].kind.kind

KindMatchesEdges ==
    kinds.tag = "Nodes" =>
        /\ {kinds.items[i].nid : i \in DOMAIN kinds.items} = DOMAIN result.nodes
        /\ Len(kinds.items) = Cardinality(DOMAIN result.nodes)
        /\ \A n \in DOMAIN result.nodes :
              /\ KindOfNode(n) = "Isolate" <=> ~HasIncomingEdge(n) /\ ~HasOutgoingEdge(n)
              /\ KindOfNode(n) = "Source" <=> ~HasIncomingEdge(n) /\ HasOutgoingEdge(n)
              /\ KindOfNode(n) = "Sink" <=> HasIncomingEdge(n) /\ ~HasOutgoingEdge(n)
              /\ KindOfNode(n) = "NonTerminal" <=> HasIncomingEdge(n) /\ HasOutgoingEdge(n)
        /\ stmts = RoadDsl =>
              /\ KindOfNode("Start") = "NonTerminal"
              /\ KindOfNode("Fork") = "NonTerminal"
              /\ KindOfNode("End") = "Sink"

KindMatchesEdgesWitness ==
    /\ kinds.tag = "Nodes"
    /\ stmts = RoadDsl
    /\ DOMAIN result.nodes = {"Start", "Fork", "End"}
    /\ KindOfNode("End") = "Sink"
    /\ KindOfNode("Start") = "NonTerminal"

(***************************************************************************)
(* C14.  For every node of the graph the state enum and the entry enum     *)
(* each have exactly one variant emitted for it (and no other variant),    *)
(* and the shape of the entry variant is decided by (the node has outgoing *)
(* edges, the node has a payload): a connector around the container when   *)
(* it has outgoing edges, else a reference to the payload when it has      *)
(* one, else bare.                                                         *)
(***************************************************************************)
Ran == generated # Idle

ItemsFor(list, n) == {i \in DOMAIN list : list[i].node = n}

EntryVariantOf(n) ==
    generated.entry_variants[
        CHOOSE i \in DOMAIN generated.entry_variants :
            generated.entry_variants[i].node = n]

ExpectedShape(n) ==
    IF HasOutgoingEdge(n) THEN "connector"
    ELSE IF result.nodes[n].ty # None THEN "reference"
    ELSE "bare"

OneVariantPerNode ==
    Ran =>
        /\ Len(generated.state_variants) = Cardinality(DOMAIN result.nodes)
        /\ Len(generated.entry_variants) = Cardinality(DOMAIN result.nodes)
        /\ \A n \in DOMAIN result.nodes :
              /\ Cardinality(ItemsFor(generated.state_variants, n)) = 1
              /\ Cardinality(ItemsFor(generated.entry_variants, n)) = 1
              /\ Cardinality(ItemsFor(generated.entry_construction, n)) = 1
              /\ EntryVariantOf(n).shape = ExpectedShape(n)
              /\ EntryVariantOf(n).shape = "reference" =>
                    EntryVariantOf(n).of = result.nodes[n].ty
              /\ EntryVariantOf(n).shape = "connector" =>
                    \E i \in ItemsFor(generated.transition_tys, n) :
                        EntryVariantOf(n).of = Some(generated.transition_tys[i].name)

OneVariantPerNodeWitness ==
    /\ Ran
    /\ stmts = ShapesDsl
    /\ EntryVariantOf("DesertIsland").shape = "bare"
    /\ EntryVariantOf("Tombstone").shape = "reference"
    /\ EntryVariantOf("BeautifulBridge").shape = "connector"
    /\ EntryVariantOf("Stream").shape = "connector"
    /\ result.nodes["BeautifulBridge"].ty # None
    /\ result.nodes["Stream"].ty = None

(***************************************************************************)
(* C15.  For every edge (A, B) the connector type of A has exactly one     *)
(* transition method emitted for that edge, bearing the edge's method      *)
(* name, and no other transition method: the methods on A's connector are  *)
(* as many as the edges leaving A, and a node without outgoing edges has   *)
(* no connector type.  For Start -> Fork -> End, Fork -> Start: end and    *)
(* start on Fork, fork on Start, nothing for End.                          *)
(***************************************************************************)
Fns == {i \in DOMAIN generated.transition_impls :
            generated.transition_impls[i].item = "fn"}

FnsOn(n) == {i \in Fns : generated.transition_impls[i].node = n}

FnNamesOn(n) == {generated.transition_impls[i].name : i \in FnsOn(n)}

OneMethodPerEdge ==
    Ran =>
        /\ \A e \in DOMAIN result.edges :
              /\ Cardinality({i \in FnsOn(e[1]) :
                     generated.transition_impls[i].to = e[2]}) = 1
              /\ \A i \in FnsOn(e[1]) :
                     generated.transition_impls[i].to = e[2] =>
                        /\ generated.transition_impls[i].name = transition_fn(e[2])
                        /\ \E t \in ItemsFor(generated.transition_tys, e[1]) :
                              generated.transition_tys[t].name =
                                  generated.transition_impls[i].self_ty
        /\ \A n \in DOMAIN result.nodes :
              /\ Cardinality(FnsOn(n)) =
                     Cardinality({e \in DOMAIN result.edges : e[1] = n})
              /\ Cardinality(ItemsFor(generated.transition_tys, n)) =
                     IF HasOutgoingEdge(n) THEN 1 ELSE 0
        /\ Len(generated.transition_tys) =
               Cardinality({n \in DOMAIN result.nodes : HasOutgoingEdge(n)})
        /\ stmts = RoadDsl =>
              /\ FnNamesOn("Fork") = {"end", "start"}
              /\ Cardinality(FnsOn("Fork")) = 2
              /\ FnNamesOn("Start") = {"fork"}
              /\ Cardinality(FnsOn("Start")) = 1
              /\ FnsOn("End") = {}
              /\ ItemsFor(generated.transition_tys, "End") = {}

OneMethodPerEdgeWitness ==
    /\ Ran
    /\ stmts = RoadDsl
    /\ FnNamesOn("Fork") = {"end", "start"}
    /\ FnNamesOn("Start") = {"fork"}
    /\ Len(generated.transition_tys) = 2

(***************************************************************************)
(* C17.  In every graph the builder accepts, the transition methods        *)
(* emitted on one connector have pairwise distinct names, also when two    *)
(* targets convert to the same snake_case name.                            *)
(* The builder accepts A -> FooBar; A -> foo_bar; and codegen emits two    *)
(* methods foo_bar on A's connector.                                       *)
(***************************************************************************)
SiblingMethodsDistinct ==
    Ran =>
        \A n \in DOMAIN result.nodes :
            \A i \in FnsOn(n), j \in FnsOn(n) :
                i # j => generated.transition_impls[i].name #
                         generated.transition_impls[j].name

(***************************************************************************)
(* C18.  Two runs of the generator on the same input give the same         *)
(* output: the order of the state variants, entry variants, entry match    *)
(* arms, connector types and transition methods does not vary.             *)
(* The lists follow the iteration order of the HashMaps, which varies.     *)
(***************************************************************************)
SameOutputEveryRun ==
    (previous # Idle /\ generated # Idle) => previous = generated

(***************************************************************************)
(* C16.  The method name of an edge is the name of its arrow when the      *)
(* arrow has one, and otherwise the snake_case form of the name of the     *)
(* target (BeautifulBridge gives beautiful_bridge); the arrows of one      *)
(* chain name their own edges only.                                        *)
(***************************************************************************)
\* The method names as they stand in check_compile/full.rs and simple.rs.
FullMethodNames ==
       (<<"BeautifulBridge", "Tombstone">> :> "bridge2tombstone")
    @@ (<<"Fountain", "BeautifulBridge">> :> "fountain2bridge")
    @@ (<<"Fountain", "Plank">> :> "plank")
    @@ (<<"Plank", "UnmarkedGrave">> :> "unmarked_grave")
    @@ (<<"Stream", "BeautifulBridge">> :> "beautiful_bridge")
    @@ (<<"Stream", "Plank">> :> "plank")

SimpleMethodNames ==
       (<<"Fork", "End">> :> "end")
    @@ (<<"Fork", "Start">> :> "start")
    @@ (<<"Start", "Fork">> :> "fork")

\* The converted names of the targets of the arrows without a name.
SnakeNames ==
       ("A" :> "a") @@ ("B" :> "b")
    @@ ("BeautifulBridge" :> "beautiful_bridge") @@ ("Plank" :> "plank")
    @@ ("UnmarkedGrave" :> "unmarked_grave")
    @@ ("End" :> "end") @@ ("Fork" :> "fork") @@ ("Start" :> "start")

\* The group an arrow of a statement starts from.
GroupBefore(st, k) == IF k = 1 THEN st.first ELSE st.rest[k - 1][2]

MixedChain ==
    <<TIdent("A"), TMinus, TIdent("go"), TRArrow, TIdent("B"), TRArrow, TIdent("A")>>

FullVariants ==
    <<"BeautifulBridge", "DesertIsland", "Fountain", "Plank",
      "PopulatedIsland", "Stream", "Tombstone", "UnmarkedGrave">>

FullConnectors == <<"BeautifulBridge", "Fountain", "Plank", "Stream">>

FullAccessors == <<"BeautifulBridge", "Fountain">>

FullMethods ==
    << [on |-> "BeautifulBridge", to |-> "Tombstone", name |-> "bridge2tombstone"],
       [on |-> "Fountain", to |-> "BeautifulBridge", name |-> "fountain2bridge"],
       [on |-> "Fountain", to |-> "Plank", name |-> "plank"],
       [on |-> "Plank", to |-> "UnmarkedGrave", name |-> "unmarked_grave"],
       [on |-> "Stream", to |-> "BeautifulBridge", name |-> "beautiful_bridge"],
       [on |-> "Stream", to |-> "Plank", name |-> "plank"] >>

SimpleVariants == <<"End", "Fork", "Start">>

SimpleConnectors == <<"Fork", "Start">>

SimpleMethods ==
    << [on |-> "Fork", to |-> "End", name |-> "end"],
       [on |-> "Fork", to |-> "Start", name |-> "start"],
       [on |-> "Start", to |-> "Fork", name |-> "fork"] >>

\* A sequence of names in strictly ascending byte order.
Ascending(names) ==
    \A i \in DOMAIN names, j \in DOMAIN names :
        i < j => StrLt(names[i], names[j], 1)

NamedArrowBeforeGroup(ts) ==
    \E p \in DOMAIN ts :
        /\ ts[p].t = "Minus"
        /\ p + 3 <= Len(ts)
        /\ ts[p + 1].t = "Ident"
        /\ ts[p + 2].t = "RArrow"
        /\ LET q == parse_docs(ts, p + 3).pos
           IN /\ q + 1 <= Len(ts)
              /\ ts[q].t = "Ident"
              /\ \/ ts[q + 1].t = "And"
                 \/ ts[q + 1].t = "Paren" /\ q + 2 <= Len(ts) /\ ts[q + 2].t = "And"

PlainIntoGroup == <<TIdent("A"), TRArrow, TIdent("A"), TAnd, TIdent("B")>>
NamedIntoSingle == <<TIdent("A"), TMinus, TIdent("go"), TRArrow, TIdent("B")>>
NamedIntoPair ==
    <<TIdent("A"), TMinus, TIdent("go"), TRArrow, TIdent("A"), TAnd, TIdent("B")>>

NamedGroupRejected ==
    root # Idle =>
        /\ NamedArrowBeforeGroup(tokens) => root.tag = "Err"
        /\ root = Err(NamedGroupMsg) => NamedArrowBeforeGroup(tokens)
        /\ tokens = NamedIntoPair => root = Err(NamedGroupMsg)
        /\ tokens \in {PlainIntoGroup, NamedIntoSingle} => root.tag = "Ok"
        /\ tokens \in FullInputs => root.tag = "Ok"

NamedGroupRejectedWitness ==
    /\ tokens = NamedIntoPair
    /\ root = Err(NamedGroupMsg)


(***************************************************************************)
(* FSMGenerator::parse_dot (core/src/lib.rs): a DOT graph, as the parser   *)
(* of syn_graphs hands it over, is rewritten statement by statement into   *)
(* DSL statements, which then go through try_from_dsl.                     *)
(*                                                                         *)
(* ID: an identifier or anything else (a string or number literal, an HTML *)
(* string).  EdgeTarget: a node id with an optional port, or a subgraph.   *)
(* The messages are the source's, with apostrophes for its backticks.      *)
(***************************************************************************)
MaxDotStmts == 3

AnyIdent(text) == [kind |-> "AnyIdent", text |-> text]
AnyLit(text) == [kind |-> "AnyLit", text |-> text]

DotNodeId(id, port) == [kind |-> "NodeId", id |-> id, port |-> port]
DotSubgraph == [kind |-> "Subgraph"]

Directed == "Directed"
Undirected == "Undirected"

DotStmtNode(node_id, attrs) ==
    [kind |-> "Node", node_id |-> node_id, attrs |-> attrs]
DotStmtEdge(from, edges, attrs) ==
    [kind |-> "Edge", from |-> from, edges |-> edges, attrs |-> attrs]
DotStmtOther(kind) == [kind |-> kind]

DotGraph(directedness, id, stmt_list) ==
    [directedness |-> directedness, id |-> id, stmt_list |-> stmt_list]

\* Words syn::Ident refuses: ID::AnyIdent takes any word, a keyword too.
Keywords == {"fn"}

\* syn::parse2::<Ident>(id.into_token_stream())
ParseIdent(id) ==
    IF id.text \in Keywords
    THEN Err("expected identifier, found keyword")
    ELSE [tag |-> "Ok", ident |-> id.text]

\* edge_target_to_ident with `port: _` in place of the check of the port.
edge_target_ignores_port(edge_target) ==
    IF edge_target.kind = "Subgraph" THEN Err("subgraphs are not supported")
    ELSE IF edge_target.id.kind # "AnyIdent"
         THEN Err("only idents are allowed here")
         ELSE ParseIdent(edge_target.id)

edge_target_to_ident(edge_target) ==
    IF edge_target.kind = "Subgraph" THEN Err("subgraphs are not supported")
    ELSE IF IsSome(edge_target.port) THEN Err("ports are not supported")
    ELSE IF edge_target.id.kind # "AnyIdent"
         THEN Err("only idents are allowed here")
         ELSE ParseIdent(edge_target.id)

\* edges.into_iter().map(|(dir, to)| ..).collect::<syn::Result<Vec<_>>>():
\* the pairs (Short arrow, ident), or the first error.
RECURSIVE CollectEdges(_, _)
CollectEdges(edges, acc) ==
    IF edges = <<>> THEN [tag |-> "Ok", rest |-> acc]
    ELSE LET dir == edges[1][1]
             to == edge_target_to_ident(edges[1][2])
         IN IF dir # Directed THEN Err("edge must be directed")
            ELSE IF to.tag = "Err" THEN to
            ELSE CollectEdges(Tail(edges), Append(acc, <<Short, to.ident>>))

\* The arm DotStmt::Edge without `rest.remove(0)`: the first hop is taken
\* and stays in `rest` as well.
TranspileEdgeKeepsFirst(stmt) ==
    IF IsSome(stmt.attrs) THEN Err("attrs are not supported")
    ELSE LET rest == CollectEdges(stmt.edges, <<>>)
             from == edge_target_to_ident(stmt.from)
         IN IF rest.tag = "Err" THEN rest
            ELSE IF from.tag = "Err" THEN from
            ELSE [tag |-> "Ok",
                  stmt |-> StmtEdges(<<>>, from.ident, rest.rest[1][1],
                                     rest.rest[1][2], rest.rest)]

\* The arm DotStmt::Edge(DotStmtEdge { from, edges, attrs }).
TranspileEdge(stmt) ==
    IF IsSome(stmt.attrs) THEN Err("attrs are not supported")
    ELSE LET rest == CollectEdges(stmt.edges, <<>>)
             from == edge_target_to_ident(stmt.from)
         IN IF rest.tag = "Err" THEN rest
            ELSE IF from.tag = "Err" THEN from
            ELSE [tag |-> "Ok",
                  stmt |-> StmtEdges(<<>>, from.ident, rest.rest[1][1],
                                     rest.rest[1][2], Tail(rest.rest))]

\* The arm DotStmt::Node(DotStmtNode { node_id: DotNodeId { id, port }, attrs }).
TranspileNode(stmt) ==
    IF IsSome(stmt.attrs) THEN Err("attrs are not supported")
    ELSE IF IsSome(stmt.node_id.port) THEN Err("ports are not supported")
    ELSE IF stmt.node_id.id.kind # "AnyIdent" THEN Err("unsupported id")
    ELSE LET ident == ParseIdent(stmt.node_id.id)
         IN IF ident.tag = "Err" THEN ident
            ELSE [tag |-> "Ok", stmt |-> StmtNode(<<>>, ident.ident, None)]

\* One turn of `for (stmt, _) in stmt_list.stmts`.
TranspileStmt(stmt) ==
    CASE stmt.kind = "Node" -> TranspileNode(stmt)
      [] stmt.kind = "Edge" -> TranspileEdge(stmt)
      [] OTHER -> Err("unsupported statement")

RECURSIVE TranspileStmts(_, _)
TranspileStmts(stmt_list, acc) ==
    IF stmt_list = <<>> THEN [tag |-> "Ok", stmts |-> acc]
    ELSE LET r == TranspileStmt(Head(stmt_list))
         IN IF r.tag = "Err" THEN r
            ELSE TranspileStmts(Tail(stmt_list), Append(acc, r.stmt))

\* The results parse_dot can return for a graph.
parse_dot(g) ==
    IF g.directedness # "Digraph" THEN {Err("must be 'digraph'")}
    ELSE IF ~(IsSome(g.id) /\ g.id[1].kind = "AnyIdent")
         THEN {Err("graph must be named")}
    ELSE LET r == TranspileStmts(g.stmt_list, <<>>)
             name == ParseIdent(g.id[1])
         IN IF r.tag = "Err" THEN {r}
            ELSE IF name.tag = "Err" THEN {name}
            ELSE TryFromDsl(r.stmts)


(***************************************************************************)
(* Inputs of parse_dot.  Plain statements are bare-identifier node         *)
(* statements and directed chains; the others carry one feature parse_dot  *)
(* does not support.                                                       *)
(***************************************************************************)
Bare(text) == DotNodeId(AnyIdent(text), None)

Arrow(text) == <<Directed, Bare(text)>>

DotPlainStmts ==
    { DotStmtNode(Bare("A"), None),
      DotStmtNode(Bare("B"), None),
      DotStmtEdge(Bare("A"), <<Arrow("B")>>, None),
      DotStmtEdge(Bare("A"), <<Arrow("B"), Arrow("C")>>, None),
      DotStmtEdge(Bare("A"), <<Arrow("A"), Arrow("A")>>, None) }

DotOtherStmts ==
    { DotStmtNode(Bare("A"), Some("color = red")),
      DotStmtNode(DotNodeId(AnyIdent("A"), Some("p")), None),
      DotStmtNode(DotNodeId(AnyLit("A"), None), None),
      DotStmtNode(Bare("fn"), None),
      DotStmtEdge(Bare("A"), <<Arrow("B")>>, Some("color = red")),
      DotStmtEdge(Bare("A"), << <<Undirected, Bare("B")>> >>, None),
      DotStmtEdge(Bare("A"), << <<Directed, DotSubgraph>> >>, None),
      DotStmtEdge(DotNodeId(AnyIdent("A"), Some("p")), <<Arrow("B")>>, None),
      DotStmtEdge(Bare("A"), << <<Directed, DotNodeId(AnyLit("B"), None)>> >>, None),
      DotStmtOther("Attr"),
      DotStmtOther("Assign"),
      DotStmtOther("Subgraph") }

DotSampleStmts == DotPlainStmts \cup DotOtherStmts

\* The headers parse_dot refuses: `graph G`, `digraph`, `digraph "G"`,
\* `digraph fn`.
OtherHeaders ==
    { <<"Graph", Some(AnyIdent("Example"))>>,
      <<"Digraph", None>>,
      <<"Digraph", Some(AnyLit("Example"))>>,
      <<"Digraph", Some(AnyIdent("fn"))>> }

\* trybuild/pass/full-dot.rs
FullDot ==
    DotGraph("Digraph", Some(AnyIdent("Example")),
        << DotStmtNode(Bare("PopulatedIsland"), None),
           DotStmtNode(Bare("DesertIsland"), None),
           DotStmtNode(Bare("BeautifulBridge"), None),
           DotStmtNode(Bare("Plank"), None),
           DotStmtNode(Bare("Tombstone"), None),
           DotStmtNode(Bare("UnmarkedGrave"), None),
           DotStmtNode(Bare("Fountain"), None),
           DotStmtNode(Bare("Stream"), None),
           DotStmtEdge(Bare("BeautifulBridge"), <<Arrow("UnmarkedGrave")>>, None),
           DotStmtEdge(Bare("Plank"), <<Arrow("Tombstone")>>, None),
           DotStmtEdge(Bare("Fountain"),
                       <<Arrow("BeautifulBridge"), Arrow("Tombstone")>>, None),
           DotStmtEdge(Bare("Fountain"),
                       <<Arrow("Plank"), Arrow("UnmarkedGrave")>>, None),
           DotStmtEdge(Bare("Stream"), <<Arrow("BeautifulBridge")>>, None),
           DotStmtEdge(Bare("Stream"), <<Arrow("Plank")>>, None) >>)

DotInputs ==
    {DotGraph("Digraph", Some(AnyIdent("Example")), ss) :
        ss \in SeqsUpTo(DotSampleStmts, MaxDotStmts)}
    \cup {DotGraph(h[1], h[2], ss) :
            h \in OtherHeaders, ss \in SeqsUpTo(DotPlainStmts, MaxDotStmts - 1)}

\* A plain graph: a named digraph of bare-identifier node statements and
\* directed chains of bare identifiers.
PlainId(id) == id.kind = "AnyIdent" /\ id.text \notin Keywords

PlainTarget(t) == t.kind = "NodeId" /\ PlainId(t.id) /\ t.port = None

PlainStmt(st) ==
    \/ st.kind = "Node" /\ st.attrs = None /\ PlainTarget(st.node_id)
    \/ /\ st.kind = "Edge"
       /\ st.attrs = None
       /\ PlainTarget(st.from)
       /\ \A i \in DOMAIN st.edges :
            st.edges[i][1] = Directed /\ PlainTarget(st.edges[i][2])

PlainDot(g) ==
    /\ g.directedness = "Digraph"
    /\ IsSome(g.id)
    /\ PlainId(g.id[1])
    /\ \A i \in DOMAIN g.stmt_list : PlainStmt(g.stmt_list[i])

\* The DSL input with the same node statements and the same chains:
\* `A;` for `A;` and `A -> B -> C;` for `A -> B -> C;`.
ChainNames(st) ==
    <<st.from.id.text>> \o [i \in DOMAIN st.edges |-> st.edges[i][2].id.text]

SameInDsl(g) ==
    [i \in DOMAIN g.stmt_list |->
        LET st == g.stmt_list[i]
        IN IF st.kind = "Node"
           THEN StmtNode(<<>>, st.node_id.id.text, None)
           ELSE LET chain == ChainNames(st)
                IN StmtEdges(<<>>, chain[1], Short, chain[2],
                             [k \in 1..(Len(chain) - 2) |-> <<Short, chain[k + 2]>>])]

InitDot ==
    /\ digraph \in DotInputs
    /\ fromDot = Pending
    /\ stmts = IF PlainDot(digraph) THEN SameInDsl(digraph) ELSE <<>>
    /\ result = Pending
    /\ NoGen
    /\ NoParse
    /\ cli = Idle
    /\ walk = Idle
    /\ NoArgs
    /\ gname = "none"
    /\ machine = Idle
    /\ handles = {}
    /\ last = Idle
    /\ initial = Idle
    /\ tainted = FALSE
    /\ halted = FALSE

ParseDot ==
    /\ digraph # Idle
    /\ fromDot = Pending
    /\ fromDot' \in parse_dot(digraph)
    /\ UNCHANGED <<stmts, result, runVars, genVars, parseVars, digraph, cli, walk, args>>

NextDot ==
    \/ ParseDot
    \/ ParseDsl

SpecDot == InitDot /\ [][NextDot]_vars


(***************************************************************************)
(* C21.  parse_dot is equivalent to the DSL front end on plain graphs: a   *)
(* DOT digraph of bare-identifier node statements and directed chains      *)
(* yields the same node set, every node without payload, and the same edge *)
(* set as the DSL input with the same node statements and chains, and      *)
(* fails with the same duplicate-node or duplicate-edge error when the DSL *)
(* input does.  The graph of trybuild/pass/full-dot.rs has the nodes and   *)
(* the edges of the one of trybuild/pass/full-dsl.rs.                      *)
(***************************************************************************)
BothParsed == digraph # Idle /\ fromDot # Pending /\ result # Pending

FullDotMatchesFullDsl ==
    LET t == TranspileStmts(FullDot.stmt_list, <<>>)
    IN /\ t.tag = "Ok"
       /\ Generator(t.stmts).tag = "Ok"
       /\ DOMAIN Generator(t.stmts).nodes = DOMAIN Generator(ExampleDsl).nodes
       /\ DOMAIN Generator(t.stmts).edges = DOMAIN Generator(ExampleDsl).edges

DotMatchesDsl ==
    /\ FullDotMatchesFullDsl
    /\ (BothParsed /\ PlainDot(digraph)) =>
        /\ fromDot.tag = result.tag
        /\ result.tag = "Ok" =>
            /\ DOMAIN fromDot.nodes = DOMAIN result.nodes
            /\ \A n \in DOMAIN fromDot.nodes : fromDot.nodes[n].ty = None
            /\ DOMAIN fromDot.edges = DOMAIN result.edges
        /\ result.tag = "Err" =>
            /\ fromDot.msg = result.msg
            /\ result.msg \in {DupNodeMsg, DupEdgeMsg}

\* A plain graph with a node statement and a chain of two hops went through
\* both front ends.
DotMatchesDslWitness ==
    /\ BothParsed
    /\ PlainDot(digraph)
    /\ \E i \in DOMAIN digraph.stmt_list : digraph.stmt_list[i].kind = "Node"
    /\ \E i \in DOMAIN digraph.stmt_list :
          /\ digraph.stmt_list[i].kind = "Edge"
          /\ Len(digraph.stmt_list[i].edges) = 2
    /\ fromDot.tag = "Ok"
    /\ Cardinality(DOMAIN fromDot.edges) >= 2

(***************************************************************************)
(* C22.  parse_dot returns an error and no generator for any input that is *)
(* not a digraph, is unnamed, or contains an attribute list on a node or   *)
(* edge, a port, a subgraph, an attribute or assignment statement, a       *)
(* non-identifier id, or an undirected edge.                               *)
(***************************************************************************)
TargetUnsupported(t) ==
    \/ t.kind = "Subgraph"
    \/ t.kind = "NodeId" /\ (IsSome(t.port) \/ t.id.kind # "AnyIdent")

StmtUnsupported(st) ==
    \/ st.kind \in {"Attr", "Assign", "Subgraph"}
    \/ st.kind = "Node" /\ (IsSome(st.attrs) \/ TargetUnsupported(st.node_id))
    \/ /\ st.kind = "Edge"
       /\ \/ IsSome(st.attrs)
          \/ TargetUnsupported(st.from)
          \/ \E i \in DOMAIN st.edges :
                st.edges[i][1] = Undirected \/ TargetUnsupported(st.edges[i][2])

Unsupported(g) ==
    \/ g.directedness # "Digraph"
    \/ g.id = None
    \/ IsSome(g.id) /\ g.id[1].kind # "AnyIdent"
    \/ \E i \in DOMAIN g.stmt_list : StmtUnsupported(g.stmt_list[i])

DotRejectsUnsupported ==
    (digraph # Idle /\ fromDot # Pending /\ Unsupported(digraph)) =>
        /\ fromDot.tag = "Err"
        /\ DOMAIN fromDot = {"tag", "msg"}

\* A graph whose last statement, after two plain ones, has a port on the
\* source of an edge, was refused.
DotRejectsUnsupportedWitness ==
    /\ digraph # Idle
    /\ fromDot # Pending
    /\ Len(digraph.stmt_list) = 3
    /\ PlainStmt(digraph.stmt_list[1])
    /\ PlainStmt(digraph.stmt_list[2])
    /\ digraph.stmt_list[3].kind = "Edge"
    /\ digraph.stmt_list[3].from.kind = "NodeId"
    /\ IsSome(digraph.stmt_list[3].from.port)
    /\ fromDot = Err("ports are not supported")


(***************************************************************************)
(* C23.  Generation is all-or-nothing: if any statement of the input       *)
(* triggers an error, the caller receives the first error, in the order    *)
(* the statements are processed, and no graph at all, whatever valid       *)
(* statements precede or follow it; otherwise the graph holds everything   *)
(* the input declares.                                                     *)
(***************************************************************************)
Triggers(ss) == RepeatsNode(ss) \/ RepeatsPair(ss)

\* The first statement of `ss` that repeats a declaration of those before it.
FirstTrigger(ss) ==
    CHOOSE k \in DOMAIN ss :
        /\ Triggers(SubSeq(ss, 1, k))
        /\ \A j \in 1..(k - 1) : ~Triggers(SubSeq(ss, 1, j))

MsgOf(s) == IF s.kind = "Node" THEN DupNodeMsg ELSE DupEdgeMsg

MentionedIdents(ss) ==
    UNION {IF ss[i].kind = "Node" THEN {ss[i].ident}
           ELSE {ChainIdents(ss[i])[k] : k \in DOMAIN ChainIdents(ss[i])} :
           i \in DOMAIN ss}

AllOrNothing ==
    Built =>
        /\ Triggers(stmts) <=> result.tag = "Err"
        /\ result.tag = "Err" =>
            /\ DOMAIN result = {"tag", "msg"}
            /\ \A sorted \in SortUnstableBy(stmts) :
                  result.msg = MsgOf(sorted[FirstTrigger(sorted)])
        /\ result.tag = "Ok" =>
            /\ DOMAIN result.nodes = MentionedIdents(stmts)
            /\ DOMAIN result.edges =
                  {DeclaredPairs(stmts)[i] : i \in DOMAIN DeclaredPairs(stmts)}

\* A valid chain, then a statement that repeats its pair, then a valid node
\* statement: only the error came back.
AllOrNothingWitness ==
    /\ Len(stmts) = 3
    /\ stmts[1] = StmtEdges(<<>>, "A", Short, "B", <<>>)
    /\ stmts[2] = StmtEdges(<<>>, "A", Long, "B", <<>>)
    /\ stmts[3] = StmtNode(<<>>, "B", Some("String"))
    /\ result = Err(DupEdgeMsg)


(***************************************************************************)
(* C29.  The graph built from a statement list does not depend on where    *)
(* the node statements sit relative to the transition statements: moving   *)
(* a node statement to any other place yields the same nodes, with payload *)
(* and documentation, and the same edges, or an error in both cases.  A    *)
(* node declared with a payload after a chain that mentions it still gets  *)
(* that payload.                                                           *)
(***************************************************************************)
\* `ss` with its statement i taken out and put back at position j.
Moved(ss, i, j) ==
    LET others == [k \in 1..(Len(ss) - 1) |-> IF k < i THEN ss[k] ELSE ss[k + 1]]
    IN SubSeq(others, 1, j - 1) \o <<ss[i]>> \o SubSeq(others, j, Len(others))

Moves(ss) == {Moved(ss, i, j) : i \in NodeStmtIx(ss), j \in DOMAIN ss}

NodePlacementIrrelevant ==
    Built => \A moved \in Moves(stmts) : TryFromDsl(moved) = {result}

\* `B: String` written between two chains that mention B.
NodePlacementIrrelevantWitness ==
    /\ Len(stmts) = 3
    /\ stmts[1] = StmtEdges(<<>>, "A", Short, "B", <<>>)
    /\ stmts[2] = StmtNode(<<>>, "B", Some("String"))
    /\ stmts[3] = StmtEdges(<<>>, "B", Short, "A", <<>>)
    /\ Cardinality(Moves(stmts)) = 3
    /\ result.tag = "Ok"
    /\ result.nodes["B"].ty = Some("String")
    /\ DOMAIN result.edges = {<<"A", "B">>, <<"B", "A">>}

(***************************************************************************)
(* C30.  A chain n0 -> n1 -> ... -> nk inserts exactly the k edges         *)
(* (n_i, n_i+1) of its consecutive pairs and no edge between non-adjacent  *)
(* members: the edges of a graph are the consecutive pairs of its chains,  *)
(* one each.                                                               *)
(***************************************************************************)
PairsOf(ss) == {DeclaredPairs(ss)[i] : i \in DOMAIN DeclaredPairs(ss)}

ChainInsertsConsecutivePairs ==
    result.tag = "Ok" =>
        /\ Cardinality(DOMAIN result.edges) = Len(DeclaredPairs(stmts))
        /\ \A i \in DOMAIN stmts :
              stmts[i].kind = "Edges" =>
                LET c == ChainIdents(stmts[i])
                IN /\ \A j \in 1..(Len(c) - 1) :
                         <<c[j], c[j + 1]>> \in DOMAIN result.edges
                   /\ \A a, b \in DOMAIN c :
                         (b # a + 1 /\ <<c[a], c[b]>> \in DOMAIN result.edges)
                            => <<c[a], c[b]>> \in PairsOf(stmts)

\* A -> B -> C alone: (A, B) and (B, C), not (A, C).
ChainInsertsConsecutivePairsWitness ==
    /\ stmts = << StmtEdges(<<>>, "A", Short, "B", << <<Short, "C">> >>) >>
    /\ result.tag = "Ok"
    /\ DOMAIN result.edges = {<<"A", "B">>, <<"B", "C">>}
    /\ <<"A", "C">> \notin DOMAIN result.edges


(***************************************************************************)
(* C27.  The names chosen for the payload accessors of a connector (get /  *)
(* get_mut, else get_data / get_data_mut, else the same with trailing      *)
(* underscores) never equal the name of a transition method generated on   *)
(* the same connector, for every set of node names.                        *)
(* getter_names compares the candidates with the node names as written,    *)
(* while a transition method bears the snake_case form of the name of its  *)
(* target: for Door: String; Door -> Get; the connector of Door gets the   *)
(* accessor get and the transition method get.                             *)
(***************************************************************************)
Getters == {i \in DOMAIN generated.transition_impls :
                generated.transition_impls[i].item = "getters"}

AccessorsAvoidMethods ==
    Ran =>
        \A i \in Getters :
            LET getters == generated.transition_impls[i]
            IN FnNamesOn(getters.node) \cap {getters.get, getters.get_mut} = {}

(***************************************************************************)
(* C28.  For every node N the generated documentation lists under          *)
(* "reachable from" exactly the nodes A with an edge (A, N) and under "can *)
(* reach" exactly the nodes B with an edge (N, B), each once; a section is *)
(* present if and only if the corresponding edge set is not empty.         *)
(***************************************************************************)
Occurrences(lines, text) == {i \in DOMAIN lines : lines[i] = text}

\* The lines of `docs` under the heading `text`, up to line `end`.
Section(docs, text, end) ==
    IF Occurrences(docs, text) = {} THEN <<>>
    ELSE SubSeq(docs, (CHOOSE i \in Occurrences(docs, text) : TRUE) + 1, end)

\* `lines` has one bullet for every node of S and nothing else.
Lists(lines, S) ==
    /\ Len(lines) = Cardinality(S)
    /\ \A x \in S :
          Cardinality(Occurrences(lines, Bullet(x))) =
              Cardinality({y \in S : Bullet(y) = Bullet(x)})

ReachabilityListsNeighbours ==
    Ran =>
        \A v \in DOMAIN generated.state_variants :
            LET n == generated.state_variants[v].node
                docs == generated.state_variants[v].docs
                from == {e[1] : e \in {e \in DOMAIN result.edges : e[2] = n}}
                to == {e[2] : e \in {e \in DOMAIN result.edges : e[1] = n}}
                endOfFrom ==
                    IF to = {} THEN Len(docs)
                    ELSE (CHOOSE i \in Occurrences(docs, CanReachMsg) : TRUE) - 2
            IN /\ Cardinality(Occurrences(docs, ReachableFromMsg)) =
                      IF from = {} THEN 0 ELSE 1
               /\ Cardinality(Occurrences(docs, CanReachMsg)) =
                      IF to = {} THEN 0 ELSE 1
               /\ Lists(Section(docs, ReachableFromMsg, endOfFrom), from)
               /\ Lists(Section(docs, CanReachMsg, Len(docs)), to)

\* Road: Fork is reachable from Start and can reach End and Start.
ReachabilityListsNeighboursWitness ==
    /\ Ran
    /\ stmts = RoadDsl
    /\ \E v \in DOMAIN generated.state_variants :
          /\ generated.state_variants[v].node = "Fork"
          /\ generated.state_variants[v].docs =
                <<ReachableFromMsg, Bullet("Start"), "",
                  CanReachMsg, Bullet("End"), Bullet("Start")>>
    /\ \E v \in DOMAIN generated.state_variants :
          /\ generated.state_variants[v].node = "End"
          /\ generated.state_variants[v].docs =
                <<ReachableFromMsg, Bullet("Fork")>>


(***************************************************************************)
(* The command-line tool, src/bin/fsmentry.rs (src/bin/fsmgen-cli.rs is    *)
(* the same program without --language).  main reads the input, parses it  *)
(* in the chosen language, asks get_svg for a diagram as --svg says, adds  *)
(* the diagram to the documentation of the first generated item and prints *)
(* the code.  The renderer 'dot' is the environment: whether it can be     *)
(* spawned, takes its input, can be joined, how it exits and what it       *)
(* wrote.                                                                  *)
(***************************************************************************)
Renderer(spawns, pipes, joins, code, utf8) ==
    [spawns |-> spawns, pipes |-> pipes, joins |-> joins,
     code |-> code, utf8 |-> utf8]

WorkingRenderer == Renderer(TRUE, TRUE, TRUE, Some(0), TRUE)

Renderers ==
    { WorkingRenderer,
      Renderer(FALSE, TRUE, TRUE, Some(0), TRUE),
      Renderer(TRUE, FALSE, TRUE, Some(0), TRUE),
      Renderer(TRUE, TRUE, FALSE, Some(0), TRUE),
      Renderer(TRUE, TRUE, TRUE, Some(0), FALSE),
      Renderer(TRUE, TRUE, TRUE, Some(1), TRUE),
      Renderer(TRUE, TRUE, TRUE, Some(2), FALSE),
      Renderer(TRUE, TRUE, TRUE, None, TRUE) }

Svg == "<svg/>"

get_svg(dot) ==
    IF ~dot.spawns
    THEN Err("could not exec 'dot' - is it installed and on the PATH?")
    ELSE IF ~dot.pipes THEN Err("couldn't pipe to 'dot'")
    ELSE IF ~dot.joins THEN Err("couldn't join 'dot'")
    ELSE IF dot.code = Some(0)
         THEN IF dot.utf8 THEN [tag |-> "Ok", svg |-> Svg]
              ELSE Err("'dot' returned a non-utf8 svg")
    ELSE IF IsSome(dot.code) THEN Err("'dot' exited with code")
    ELSE Err("'dot' exited abnormally")

\* let svg = match svg { Force => Some(get_svg(dot)?), Omit => None,
\*                       Auto => get_svg(dot).ok() };
\* runs counts the calls of get_svg.
Included(svg, runs) == [tag |-> "Ok", svg |-> svg, runs |-> runs]

Failed(msg, runs) == [tag |-> "Err", msg |-> msg, runs |-> runs]

include_svg_always_fatal(mode, dot) ==
    IF mode = "omit" THEN Included(None, 0)
    ELSE LET r == get_svg(dot)
         IN IF r.tag = "Err" THEN Failed(r.msg, 1)
            ELSE Included(Some(r.svg), 1)

include_svg(mode, dot) ==
    CASE mode = "force" ->
            LET r == get_svg(dot)
            IN IF r.tag = "Err" THEN Failed(r.msg, 1)
               ELSE Included(Some(r.svg), 1)
      [] mode = "omit" -> Included(None, 0)
      [] mode = "auto" ->
            LET r == get_svg(dot)
            IN Included(IF r.tag = "Ok" THEN Some(r.svg) ELSE None, 1)

\* if let Some(svg) = svg { .. attrs.push(#[doc = ""]) .. attrs.push(#[doc = #svg]) }
\* The diagram put in place of the attributes the item had.
push_svg_replaces(attrs, svg) ==
    IF svg = None THEN attrs ELSE << "<div>" \o svg[1] \o "</div>" >>

push_svg(attrs, svg) ==
    IF svg = None THEN attrs
    ELSE (IF attrs # <<>> THEN Append(attrs, "") ELSE attrs)
            \o << "<div>" \o svg[1] \o "</div>" >>

Printed(attrs, generator) == [attrs |-> attrs, generator |-> generator]

IncludeSvg == {"force", "omit", "auto"}

Language == {"dsl", "dot"}

\* A DSL input that parses and one that does not; a DOT input that parses
\* and one that does not.
CliDslInputs ==
    { RoadDsl,
      << StmtNode(<<>>, "A", Some("String")), StmtNode(<<>>, "A", None) >> }

CliDotInputs ==
    { DotGraph("Digraph", Some(AnyIdent("Example")),
               << DotStmtNode(Bare("C"), None),
                  DotStmtEdge(Bare("A"), <<Arrow("B"), Arrow("C")>>, None) >>),
      DotGraph("Graph", Some(AnyIdent("Example")),
               << DotStmtEdge(Bare("A"), <<Arrow("B")>>, None) >>) }

\* The documentation the generator puts on the first item.
CliAttrs == { <<>>, <<"a machine">> }

InitCli ==
    /\ result = Pending
    /\ fromDot = Pending
    /\ NoGen
    /\ NoParse
    /\ walk = Idle
    /\ NoArgs
    /\ gname = "none"
    /\ machine = Idle
    /\ handles = {}
    /\ last = Idle
    /\ initial = Idle
    /\ tainted = FALSE
    /\ halted = FALSE
    /\ \E svg \in IncludeSvg, language \in Language, readable \in BOOLEAN,
          attrs \in CliAttrs, dot \in Renderers :
          /\ cli = [svg |-> svg, language |-> language, readable |-> readable,
                    attrs |-> attrs, dot |-> dot, pc |-> "parse",
                    generator |-> Idle, diagram |-> None, runs |-> 0,
                    stdout |-> <<>>, status |-> "running"]
          /\ IF readable /\ language = "dsl"
             THEN stmts \in CliDslInputs /\ digraph = Idle
             ELSE IF readable
                  THEN stmts = <<>> /\ digraph \in CliDotInputs
                  ELSE stmts = <<>> /\ digraph = Idle

CliBail == [cli EXCEPT !.pc = "exit", !.status = "error"]

\* main, up to `let generator = ..`: read the input and parse it.
CliParse ==
    /\ cli # Idle
    /\ cli.pc = "parse"
    /\ IF ~cli.readable
       THEN cli' = CliBail
       ELSE \E r \in IF cli.language = "dsl" THEN TryFromDsl(stmts)
                                               ELSE parse_dot(digraph) :
                cli' = IF r.tag = "Err" THEN CliBail
                       ELSE [cli EXCEPT !.pc = "svg", !.generator = r]
    /\ UNCHANGED <<stmts, result, runVars, genVars, parseVars, digraph,
                   fromDot, walk, args>>

\* let svg = match svg { .. };
CliSvg ==
    /\ cli # Idle
    /\ cli.pc = "svg"
    /\ LET r == include_svg(cli.svg, cli.dot)
       IN cli' = IF r.tag = "Err"
                 THEN [CliBail EXCEPT !.runs = r.runs]
                 ELSE [cli EXCEPT !.pc = "print", !.diagram = r.svg,
                                  !.runs = r.runs]
    /\ UNCHANGED <<stmts, result, runVars, genVars, parseVars, digraph,
                   fromDot, walk, args>>

\* push the diagram to the first item's attributes; println!; Ok(())
CliPrint ==
    /\ cli # Idle
    /\ cli.pc = "print"
    /\ cli' = [cli EXCEPT !.pc = "exit", !.status = "ok",
                 !.stdout = << Printed(push_svg(cli.attrs, cli.diagram),
                                       cli.generator) >>]
    /\ UNCHANGED <<stmts, result, runVars, genVars, parseVars, digraph,
                   fromDot, walk, args>>

NextCli ==
    \/ CliParse
    \/ CliSvg
    \/ CliPrint

SpecCli == InitCli /\ [][NextCli]_vars

(***************************************************************************)
(* C24.  In the command-line tool the diagram mode decides the effect of a *)
(* renderer failure: under force a missing or failing renderer makes the   *)
(* tool exit with an error without printing generated code; under auto the *)
(* failure is ignored and the code is printed without a diagram; under     *)
(* omit the renderer is never run and cannot affect the output.            *)
(***************************************************************************)
RendererFails == cli.dot # WorkingRenderer

\* The code as the generator made it, without a diagram.
PlainOutput == << Printed(cli.attrs, cli.generator) >>

DiagramModeDecides ==
    /\ cli.svg = "omit" => cli.runs = 0
    /\ (cli.pc = "exit" /\ cli.generator # Idle) =>
          /\ (cli.svg = "force" /\ RendererFails) =>
                cli.status = "error" /\ cli.stdout = <<>>
          /\ (cli.svg = "auto" /\ RendererFails) =>
                cli.status = "ok" /\ cli.stdout = PlainOutput
          /\ cli.svg = "omit" =>
                cli.status = "ok" /\ cli.stdout = PlainOutput
          /\ (cli.svg # "omit" /\ ~RendererFails) =>
                /\ cli.status = "ok"
                /\ cli.runs = 1
                /\ Len(cli.stdout) = 1
                /\ cli.stdout[1].generator = cli.generator
                /\ cli.stdout[1].attrs # cli.attrs

\* 'dot' is not installed, --svg auto: the code is printed as it is.
DiagramModeDecidesWitness ==
    /\ cli.svg = "auto"
    /\ ~cli.dot.spawns
    /\ cli.pc = "exit"
    /\ cli.status = "ok"
    /\ cli.runs = 1
    /\ cli.stdout = PlainOutput
    /\ cli.attrs = <<"a machine">>


(***************************************************************************)
(* The walks of trybuild/pass and examples/explore.rs:                     *)
(*     loop { match machine.entry() { <sink> => break,                     *)
(*                                    <connector>(it) => it.<method>(..) } *)
(* One turn of the loop is one step: entry(), then either one transition   *)
(* of the connector it gave, chosen by a coin, or the break.  RandomWalk   *)
(* starts from an arbitrary state, cycle_traffic_light from Red; its loop  *)
(* has no break and is cut after MaxTransitions transitions.               *)
(***************************************************************************)
MaxTransitions == 5

Walk(path, ended) == [path |-> path, ended |-> ended]

Transitions == Len(walk.path) - 1

InitWalk ==
    /\ stmts = <<>>
    /\ result = Pending
    /\ NoGen
    /\ NoParse
    /\ NoDot
    /\ cli = Idle
    /\ NoArgs
    /\ gname \in Machines
    /\ initial \in IF gname = "TrafficLight"
                   THEN {StateValue(GraphOf(gname), "Red", None)}
                   ELSE StateValues(GraphOf(gname))
    /\ machine = [m \in Flavours(gname) |-> Effect(initial, None, "ok")]
    /\ handles = {}
    /\ last = Call("new", initial.variant, "-", None, "-", initial)
    /\ tainted = FALSE
    /\ halted = FALSE
    /\ walk = Walk(<<initial.variant>>, FALSE)

\* match machine.entry() { Entry::Node(it) => it.to(next), .. }
WalkStep ==
    /\ ~walk.ended
    /\ ~halted
    /\ Transitions < MaxTransitions
    /\ \E h \in EntryHandles(G, Container, 0), to \in DOMAIN G.nodes :
          /\ h.kind = "connector"
          /\ to \in TransitionMethods(G, h.node)
          /\ \E next \in Payloads(G, to) :
                /\ \E ec \in TransitionIn("checked", h, to, next),
                      eu \in TransitionIn("unsafe", h, to, next),
                      el \in TransitionIn("legacy", h, to, next) :
                        machine' = Lockstep(ec, eu, el)
                /\ last' = Call("transition", h.node, to, next, h.origin, Container)
    /\ halted' = Mismatch(machine')
    /\ walk' = Walk(Append(walk.path,
                           machine'[CHOOSE m \in DOMAIN machine : TRUE].state.variant),
                    FALSE)
    /\ UNCHANGED <<stmts, result, genVars, parseVars, digraph, fromDot, cli,
                   args, gname, handles, initial, tainted>>

\* match machine.entry() { Entry::Node => break, Entry::Node(data) => break, .. }
WalkBreak ==
    /\ ~walk.ended
    /\ ~halted
    /\ \A h \in EntryHandles(G, Container, 0) : h.kind # "connector"
    /\ walk' = Walk(walk.path, TRUE)
    /\ last' = Call("entry", Container.variant, "-", None, "entry", Container)
    /\ machine' = Quiet
    /\ UNCHANGED <<stmts, result, genVars, parseVars, digraph, fromDot, cli,
                   args, gname, handles, initial, tainted, halted>>

NextWalk ==
    \/ WalkStep
    \/ WalkBreak

\* The loop is sequential code: a turn that can be taken is taken.
SpecWalk == InitWalk /\ [][NextWalk]_vars /\ WF_vars(NextWalk)

Successors(GG, n) == {e[2] : e \in {e \in DOMAIN GG.edges : e[1] = n}}

Acyclic(GG) == \A n \in DOMAIN GG.nodes : n \notin ReachFrom(GG, Successors(GG, n))

(***************************************************************************)
(* C25.  For the example machine (Fountain and Stream each go to           *)
(* BeautifulBridge or Plank, BeautifulBridge and Plank each go to          *)
(* Tombstone or UnmarkedGrave, PopulatedIsland and DesertIsland are        *)
(* isolated) a walk that starts in any state and repeatedly calls entry()  *)
(* and takes any offered transition always ends in a state without         *)
(* outgoing edges, after at most two transitions; for an acyclic graph     *)
(* every such walk ends within (number of nodes - 1) transitions.          *)
(***************************************************************************)
ExampleEdges ==
    { <<"Fountain", "BeautifulBridge">>, <<"Fountain", "Plank">>,
      <<"Stream", "BeautifulBridge">>, <<"Stream", "Plank">>,
      <<"BeautifulBridge", "Tombstone">>, <<"BeautifulBridge", "UnmarkedGrave">>,
      <<"Plank", "Tombstone">>, <<"Plank", "UnmarkedGrave">> }

WalkEnds ==
    /\ [](/\ DOMAIN GraphOf("Example").edges = ExampleEdges
          /\ Acyclic(GraphOf("Example"))
          /\ gname = "Example" => Transitions <= 2
          /\ Acyclic(G) => Transitions <= Cardinality(DOMAIN G.nodes) - 1
          /\ walk.ended => outgoing(G, Container.variant) = None)
    /\ (Acyclic(G) ~> walk.ended)

\* Fountain, Plank, Tombstone, and the walk is over.
WalkEndsWitness ==
    /\ gname = "Example"
    /\ walk = Walk(<<"Fountain", "Plank", "Tombstone">>, TRUE)
    /\ Container.variant = "Tombstone"

(***************************************************************************)
(* C26.  For the machine Red -> RedAmber -> Green -> Amber -> Red every    *)
(* state is NonTerminal and offers exactly one transition; a walk from Red *)
(* visits RedAmber, Green, Amber in that order and is back in Red after    *)
(* exactly four transitions, and never reaches a state without a           *)
(* transition.                                                             *)
(***************************************************************************)
LightCycle == <<"Red", "RedAmber", "Green", "Amber">>

TrafficLightCycles ==
    gname = "TrafficLight" =>
        /\ \A i \in DOMAIN GraphNodes(G) :
              /\ GraphNodes(G)[i].kind.kind = "NonTerminal"
              /\ Len(GraphNodes(G)[i].kind.outgoing) = 1
              /\ Cardinality(TransitionMethods(G, GraphNodes(G)[i].nid)) = 1
        /\ \A i \in DOMAIN walk.path :
              walk.path[i] = LightCycle[((i - 1) % 4) + 1]
        /\ ~walk.ended
        /\ IsSome(outgoing(G, Container.variant))

\* Red, RedAmber, Green, Amber, Red.
TrafficLightCyclesWitness ==
    /\ gname = "TrafficLight"
    /\ walk.path = <<"Red", "RedAmber", "Green", "Amber", "Red">>
    /\ Container.variant = "Red"
    /\ last.op = "transition"
    /\ last.node = "Amber"

(***************************************************************************)
(* C31.  A node that appears only as a member of transition chains and is  *)
(* never declared by a node statement is created with no payload type and  *)
(* no documentation, exactly once, however many chains mention it.         *)
(***************************************************************************)
DeclaredIdents(ss) == {ss[i].ident : i \in NodeStmtIx(ss)}

\* The number of places in chains where `ident` stands.
Mentions(ss, ident) ==
    Cardinality({<<i, k>> \in (DOMAIN ss) \X (1..(2 * MaxStmts + 2)) :
                    /\ ss[i].kind = "Edges"
                    /\ k \in DOMAIN ChainIdents(ss[i])
                    /\ ChainIdents(ss[i])[k] = ident})

ImplicitNodeIsBare ==
    result.tag = "Ok" =>
        /\ \A ident \in MentionedIdents(stmts) \ DeclaredIdents(stmts) :
              /\ ident \in DOMAIN result.nodes
              /\ result.nodes[ident] = NodeData(None, <<>>)
        /\ Cardinality(DOMAIN result.nodes) =
              Cardinality(MentionedIdents(stmts))

\* Two chains name B, one of them under documentation or next to a node
\* statement with a payload; B has no node statement.
ImplicitNodeIsBareWitness ==
    /\ result.tag = "Ok"
    /\ Len(stmts) = 3
    /\ "B" \notin DeclaredIdents(stmts)
    /\ \E i, j \in DOMAIN stmts :
          i # j /\ NamedInChain(<<stmts[i]>>, "B") /\ NamedInChain(<<stmts[j]>>, "B")
    /\ Mentions(stmts, "B") = 2
    /\ \E i \in DOMAIN stmts : stmts[i].kind = "Node" /\ IsSome(stmts[i].ty)
    /\ result.nodes["B"] = NodeData(None, <<>>)

(***************************************************************************)
(* The operations of the entry API: entry(), the accessors and transition  *)
(* methods of the value it returned, and the end of that value's life.     *)
(* Outside it are state_mut() and a connector built around the container.  *)
(***************************************************************************)
EntryApiOps == {"entry", "as_ref", "as_mut", "write", "transition", "drop"}

EntryApiStep == last'.op \in EntryApiOps /\ last'.origin # "direct"

NoWayOut == outgoing(G, Container.variant) = None

SameVariant == \A m \in DOMAIN machine :
                  machine'[m].state.variant = machine[m].state.variant

SameState == \A m \in DOMAIN machine : machine'[m].state = machine[m].state

\* The payload is last'.next, the variant as before.
PayloadWritten ==
    \A m \in DOMAIN machine :
        machine'[m].state = [machine[m].state EXCEPT !.data = last'.next]

(***************************************************************************)
(* C32.  Once the container holds a node with no outgoing edges (Sink or   *)
(* Isolate), no sequence of entry-API operations changes its variant:      *)
(* entry() then yields a bare variant or an exclusive reference to the     *)
(* payload, through which only the payload value can change.               *)
(***************************************************************************)
SinkIsFinal ==
    /\ [][(NoWayOut /\ EntryApiStep) =>
            /\ SameVariant
            /\ last'.op # "transition"
            /\ ~halted']_vars
    /\ [][(NoWayOut /\ last'.op = "entry") =>
            /\ \A h \in handles' : h.kind = "dataref" /\ h.node = Container.variant
            /\ (handles' # {}) <=> HasData(G, Container.variant)
            /\ SameState]_vars
    /\ [][(NoWayOut /\ last'.op = "write") => PayloadWritten]_vars

\* A write through the reference entry() gave for a sink with a payload.
SinkIsFinalWitness ==
    /\ NoWayOut
    /\ last.op = "write"
    /\ last.origin = "entry"
    /\ Container.variant = last.pre.variant
    /\ Container.data = last.next
    /\ Container.data # last.pre.data
    /\ \E h \in handles : h.kind = "dataref"

(***************************************************************************)
(* C33 (as amended).  Among the operations of the entry API, on the value  *)
(* entry() returned: entry() and the read accessor never change the        *)
(* container's value, the read-write accessor changes only the payload of  *)
(* the current variant, the variant changes only in a transition method,   *)
(* and an entry() after a transition reports the new variant.  Outside     *)
(* the entry API state_mut() assigns any state to the container.           *)
(***************************************************************************)
AccessorsKeepVariant ==
    /\ [][(EntryApiStep /\ last'.op \in {"entry", "as_ref"}) => SameState]_vars
    /\ [][(EntryApiStep /\ last'.op \in {"as_mut", "write"}) =>
            PayloadWritten /\ last'.node = Container.variant]_vars
    /\ [][(EntryApiStep /\ ~SameVariant) => last'.op = "transition"]_vars
    /\ [][(last.op = "transition" /\ last.origin = "entry" /\ last'.op = "entry") =>
            /\ last'.node = last.to
            /\ \A h \in handles' : h.node = last.to]_vars

\* entry() after a transition along an edge: a handle for the new variant.
AccessorsKeepVariantWitness ==
    /\ ~tainted
    /\ last.op = "entry"
    /\ last.node # initial.variant
    /\ Container.variant = last.node
    /\ \E h \in handles : h.node = Container.variant /\ h.origin = "entry"

\* C33 as stated: the variant changes only when a transition method is called.
VariantChangesOnlyInTransition ==
    [][~SameVariant => last'.op = "transition"]_vars

(***************************************************************************)
(* C34.  A payload modified through the handle's read-write accessor       *)
(* before a transition is the value the transition method returns: the     *)
(* returned previous payload equals the container's payload at the moment  *)
(* of the call, and after the call the container holds only the            *)
(* destination.                                                            *)
(***************************************************************************)
TransitionReturnsCurrentPayload ==
    [][(last'.op = "transition" /\ last'.origin = "entry") =>
          \A m \in DOMAIN machine :
              /\ machine'[m].ret = machine[m].state.data
              /\ (last.op \in {"as_mut"} /\ last.origin = "entry") =>
                    machine'[m].ret = last.next
              /\ machine'[m].state = StateValue(G, last'.to, last'.next)
              /\ DOMAIN machine'[m].state = {"variant", "data"}]_vars

\* The payload was changed before the transition, which returned the new one.
TransitionReturnsCurrentPayloadWitness ==
    /\ ~tainted
    /\ last.op = "transition"
    /\ last.pre.variant = initial.variant
    /\ IsSome(initial.data)
    /\ last.pre.data # initial.data
    /\ Container.variant = last.to
    /\ \A m \in DOMAIN machine : machine[m].ret = last.pre.data

(***************************************************************************)
(* C35.  incoming and outgoing are consistent views of the one edge map: B *)
(* appears in outgoing(A) iff A appears in incoming(B) iff (A,B) is an     *)
(* edge, each exactly once and with that edge's data, and both lists are   *)
(* in ascending NodeId order.                                              *)
(* FSMGenerator::outgoing collects from a HashMap: the transition methods  *)
(* of a connector, emitted in the order of that list, are in any order.    *)
(***************************************************************************)
OutgoingListsAscending ==
    Ran =>
        \A n \in DOMAIN result.nodes :
            /\ {generated.transition_impls[i].to : i \in FnsOn(n)} =
                  {e[2] : e \in {e \in DOMAIN result.edges : e[1] = n}}
            /\ \A i \in FnsOn(n), j \in FnsOn(n) :
                  i < j => NodeIdLt(generated.transition_impls[i].to,
                                    generated.transition_impls[j].to)

(***************************************************************************)
(* FSMGenerator::dot: a node statement for every key of the node map, then *)
(* a one-hop edge statement for every key of the edge map, in the order    *)
(* the maps yield them, in `strict digraph <ident>`.  parse_dot reads the  *)
(* graph back (it ignores `strict`).  gname is the ident of the machine.   *)
(***************************************************************************)
conv_node_id(inner) == DotNodeId(AnyIdent(inner), None)

dot_edges_only(gen, ident, node_iter, edge_iter) ==
    DotGraph("Digraph", Some(AnyIdent(ident)),
             [i \in DOMAIN edge_iter |->
                 DotStmtEdge(conv_node_id(edge_iter[i][1]),
                             << <<Directed, conv_node_id(edge_iter[i][2])>> >>,
                             None)])
        @@ [strict |-> TRUE]

dot(gen, ident, node_iter, edge_iter) ==
    DotGraph("Digraph", Some(AnyIdent(ident)),
             [i \in DOMAIN node_iter |->
                 DotStmtNode(conv_node_id(node_iter[i]), None)]
             \o [i \in DOMAIN edge_iter |->
                    DotStmtEdge(conv_node_id(edge_iter[i][1]),
                                << <<Directed, conv_node_id(edge_iter[i][2])>> >>,
                                None)])
        @@ [strict |-> TRUE]

MachineNames == {"Example", "my_state_machine"}

InitRound ==
    /\ stmts \in GenInputs
    /\ result = Pending
    /\ gname \in MachineNames
    /\ machine = Idle
    /\ handles = {}
    /\ last = Idle
    /\ initial = Idle
    /\ tainted = FALSE
    /\ halted = FALSE
    /\ NoGen
    /\ NoParse
    /\ NoTools

\* generator.dot()
DotRun ==
    /\ result.tag = "Ok"
    /\ digraph = Idle
    /\ \E node_iter \in HashMapIter(DOMAIN result.nodes),
          edge_iter \in HashMapIter(DOMAIN result.edges) :
            digraph' = dot(result, gname, node_iter, edge_iter)
    /\ fromDot' = Pending
    /\ UNCHANGED <<stmts, result, runVars, genVars, parseVars, cli, walk, args>>

NextRound ==
    \/ ParseDsl
    \/ DotRun
    \/ ParseDot

SpecRound == InitRound /\ [][NextRound]_vars

(***************************************************************************)
(* C36.  dot() emits every node exactly once and every edge exactly once   *)
(* as a single-hop directed edge, in a strict digraph named after the      *)
(* machine; feeding that output to parse_dot succeeds and yields the same  *)
(* node-name set and the same edge set as the generator it came from.      *)
(***************************************************************************)
Count(list, x) == Cardinality({i \in DOMAIN list : list[i] = x})

Rendered == cli.svg # "omit" /\ cli.dot = WorkingRenderer

DiagramLine == "<div>" \o Svg \o "</div>"

DiagramOnlyAppends ==
    (cli.pc = "exit" /\ cli.status = "ok") =>
        /\ Len(cli.stdout) = 1
        /\ cli.stdout[1].generator = cli.generator
        /\ Len(cli.stdout[1].attrs) >= Len(cli.attrs)
        /\ SubSeq(cli.stdout[1].attrs, 1, Len(cli.attrs)) = cli.attrs
        /\ SubSeq(cli.stdout[1].attrs, Len(cli.attrs) + 1, Len(cli.stdout[1].attrs)) =
              (IF ~Rendered THEN <<>>
               ELSE IF cli.attrs # <<>> THEN <<"", DiagramLine>>
               ELSE <<DiagramLine>>)

\* A documented first item: its line, an empty line, the diagram.
DiagramOnlyAppendsWitness ==
    /\ cli.pc = "exit"
    /\ cli.status = "ok"
    /\ cli.svg = "auto"
    /\ cli.attrs = <<"a machine">>
    /\ cli.stdout[1].attrs = <<"a machine", "", DiagramLine>>
    /\ cli.stdout[1].generator = cli.generator

(***************************************************************************)
(* The keyed-argument parser of core/src/args.rs: handlers are registered  *)
(* under keys with once() and many(), then parse() is called once per      *)
(* nested meta of an attribute.                                            *)
(***************************************************************************)
MaxParses == 3

\* The keys handlers are registered under; the last one is no identifier.
ArgKeys == {"entry", "rename", "serde::rename"}

\* The paths of the metas handed to parse, as their segments.
MetaPaths == { <<"entry">>, <<"rename">>, <<"serde", "rename">> }

\* What a handler returns: syn::Result<()>.
OkUnit == [tag |-> "Ok"]
HandlerResults == { OkUnit, Err("handler") }

\* Path::is_ident: one segment, equal to the key.
is_ident(path, k) == Len(path) = 1 /\ path[1] = k

\* Either::Left(Option<Box<dyn FnOnce>>), Either::Right(Box<dyn FnMut>)
Left(o) == [either |-> "Left", f |-> o]
Right == [either |-> "Right"]

\* BTreeMap::insert
insert(inner, key, e) ==
    [k \in DOMAIN inner \cup {key} |-> IF k = key THEN e ELSE inner[k]]

\* Parser::new()
NewParser == [inner |-> [k \in {} |-> Right],
              registered |-> [k \in {} |-> "none"],
              log |-> <<>>, panicked |-> FALSE]

\* once() and many(): insert, then assert!(clobbered.is_none()).
register(parser, key, e, how) ==
    IF key \in DOMAIN parser.inner
    THEN [parser EXCEPT !.inner = insert(@, key, e), !.panicked = TRUE]
    ELSE [parser EXCEPT !.inner = insert(@, key, e),
                        !.registered = insert(@, key, how)]

once(parser, key) == register(parser, key, Left(Some("f")), "once")

many(parser, key) == register(parser, key, Right, "many")

ExpectedOneOf(keys) == [tag |-> "Err", msg |-> "Expected one of", keys |-> keys]

Duplicate == Err("duplicate value for key")

Matching(inner, path) == { k \in DOMAIN inner : is_ident(path, k) }

Returned(inner, ran, ret) == [inner |-> inner, ran |-> ran, ret |-> ret]

\* The handler of a once() key called without being taken out of its slot.
parse_keeps(inner, path, out) ==
    IF Matching(inner, path) = {}
    THEN Returned(inner, FALSE, ExpectedOneOf(DOMAIN inner))
    ELSE Returned(inner, TRUE, out)

\* Parser::parse: the loop returns at the first key the path is; out is what
\* the handler returns if it is called.
parse(inner, path, out) ==
    IF Matching(inner, path) = {}
    THEN Returned(inner, FALSE, ExpectedOneOf(DOMAIN inner))
    ELSE LET k == CHOOSE k \in Matching(inner, path) : TRUE
         IN IF inner[k].either = "Left"
            THEN IF inner[k].f # None
                 THEN Returned([inner EXCEPT ![k] = Left(None)], TRUE, out)
                 ELSE Returned(inner, FALSE, Duplicate)
            ELSE Returned(inner, TRUE, out)

InitArgs ==
    /\ stmts = <<>>
    /\ result = Pending
    /\ NoGen
    /\ NoParse
    /\ NoDot
    /\ cli = Idle
    /\ walk = Idle
    /\ gname = "none"
    /\ machine = Idle
    /\ handles = {}
    /\ last = Idle
    /\ initial = Idle
    /\ tainted = FALSE
    /\ halted = FALSE
    /\ args = NewParser

ArgsQuiet == UNCHANGED <<stmts, result, runVars, genVars, parseVars, digraph,
                         fromDot, cli, walk>>

\* parser = parser.once(key, f)
ArgsOnce ==
    /\ ~args.panicked
    /\ \E key \in ArgKeys : args' = once(args, key)
    /\ ArgsQuiet

\* parser = parser.many(key, f)
ArgsMany ==
    /\ ~args.panicked
    /\ \E key \in ArgKeys : args' = many(args, key)
    /\ ArgsQuiet

\* parser.parse(meta)
ArgsParse ==
    /\ ~args.panicked
    /\ Len(args.log) < MaxParses
    /\ \E path \in MetaPaths, out \in HandlerResults :
          LET r == parse(args.inner, path, out)
          IN args' = [args EXCEPT
                        !.inner = r.inner,
                        !.log = Append(@, [path |-> path, ran |-> r.ran,
                                           ret |-> r.ret,
                                           at |-> args.registered])]
    /\ ArgsQuiet

NextArgs == ArgsOnce \/ ArgsMany \/ ArgsParse

SpecArgs == InitArgs /\ [][NextArgs]_vars

\* How the key of a call was registered when the call was made.
RegisteredAs(e) ==
    IF Matching(e.at, e.path) = {} THEN "none"
    ELSE e.at[CHOOSE k \in Matching(e.at, e.path) : TRUE]

KeysAt(e) == DOMAIN e.at

\* The calls before call i with the same key, made when it was registered.
EarlierCalls(i) ==
    { j \in 1..(i - 1) : /\ args.log[j].path = args.log[i].path
                         /\ RegisteredAs(args.log[j]) # "none" }

(***************************************************************************)
(* C38.  In the keyed-argument parser a handler registered with once(key)  *)
(* is invoked at most once over any sequence of parse calls: the first     *)
(* occurrence of the key runs it, every later occurrence returns a         *)
(* 'duplicate value for key' error without running any handler; a handler  *)
(* registered with many(key) runs on every occurrence; a key that was not  *)
(* registered returns an 'Expected one of' error.                          *)
(***************************************************************************)
OnceRunsOnce ==
    \A i \in 1..Len(args.log) :
        /\ RegisteredAs(args.log[i]) = "once" =>
              /\ args.log[i].ran <=> EarlierCalls(i) = {}
              /\ args.log[i].ran => args.log[i].ret \in HandlerResults
              /\ ~args.log[i].ran => args.log[i].ret = Duplicate
        /\ RegisteredAs(args.log[i]) = "many" =>
              /\ args.log[i].ran
              /\ args.log[i].ret \in HandlerResults
        /\ RegisteredAs(args.log[i]) = "none" =>
              /\ ~args.log[i].ran
              /\ args.log[i].ret = ExpectedOneOf(KeysAt(args.log[i]))

\* entry registered once and given twice, rename registered many and given.
OnceRunsOnceWitness ==
    /\ Len(args.log) = 3
    /\ args.log[1].path = <<"entry">>
    /\ args.log[1].ran
    /\ args.log[2].path = <<"entry">>
    /\ args.log[2].ret = Duplicate
    /\ args.log[3].path = <<"rename">>
    /\ args.log[3].ran
    /\ RegisteredAs(args.log[3]) = "many"

(***************************************************************************)
(* C39.  Distinct nodes of an accepted graph always produce distinct       *)
(* state-enum variant names and distinct connector type names: the         *)
(* UpperCamelCase conversion applied to node names never maps two          *)
(* different nodes of one graph to the same generated identifier.          *)
(***************************************************************************)
NamesDistinct(list) ==
    \A i \in DOMAIN list, j \in DOMAIN list :
        list[i].node # list[j].node => list[i].name # list[j].name

GeneratedNamesDistinct ==
    Ran =>
        /\ NamesDistinct(generated.state_variants)
        /\ NamesDistinct(generated.transition_tys)
        /\ \A n \in DOMAIN result.nodes, m \in DOMAIN result.nodes :
              n # m => variant(n) # variant(m)

=============================================================================
